---- MODULE Spec2Model ----
(***************************************************************************)
(* Model of the document classification pipeline (classification/) and of  *)
(* the extraction-artifact reader (chatbot/).                               *)
(*                                                                         *)
(* Texts are sequences of one-character strings.  Python values that can   *)
(* be None are tagged records.  A returnArray is the record                *)
(* [status, message, data] built by getReturnArray.                        *)
(***************************************************************************)
EXTENDS Integers, Sequences, FiniteSets, TLC

\* ------------------------------------------------------------------ bounds
\* Largest number of entries of the batch folder.
MaxFiles == 2
\* Largest number of pages of one PDF.
MaxPages == 2
\* Largest number of terms of one class of a generated term catalogue.
MaxTerms == 2
\* Largest configured COUNT_THRESHOLD.
MaxThreshold == 2
\* Largest number of elements of the list given to writeJSON.
MaxItems == 2
\* Largest number of characters of a page text written to an artifact.
MaxTextLen == 3
\* Largest number of cells of a table grid.
MaxCells == 4
\* Largest number of section headers, of raw-text items and of tables of a
\* page.
MaxBlocks == 3
\* Largest row and column index of a table cell.
MaxIndex == 2
\* Largest number of child ids of a TABLE block.
MaxChildren == 3
\* Largest number of LINE blocks of a page.
MaxLines == 2
\* Largest number of chunks of a chunk configuration.
MaxChunks == 3
\* The number of terms of a large class of the catalogue.
LargeClassSize == 201
\* The conversations kept in the history store and the messages of one.
MaxConversations == 2
MaxMessages == 4

\* ------------------------------------------------------------------- state
\* The run of main on one batch: the position in main and in
\* generateVerification (pc, idx), the file system, the listing of the batch
\* folder, the configuration, and the locals of generateVerification and main.
\* classified and hist are histories kept for the properties: what page 1 of
\* each file gave to classifyFiles, and the calls of scanDocument.
VARIABLES pc, fs, folder, countThreshold, identificationList, pdfBatch, idx,
          scannedFiles, normalFiles, finalSearchedFiles, result, ret,
          classified, hist
batchVars == <<pc, fs, folder, countThreshold, identificationList, pdfBatch, idx,
               scannedFiles, normalFiles, finalSearchedFiles, result, ret,
               classified, hist>>

\* A call of searchTerms: its arguments and what it returned.
VARIABLES stArgs, stRes
searchVars == <<stArgs, stRes>>

\* A call of writeJSON(data, outPath), step by step: the position in it, the
\* data, the files at outPath and at the temporary path, and the returnArray.
\* wjOld is the file at outPath when the call started, kept for the properties.
VARIABLES wjPc, wjData, wjFiles, wjRet, wjOld
writeVars == <<wjPc, wjData, wjFiles, wjRet, wjOld>>

\* An extraction artifact written and read back: the position, the page
\* texts (results, by page number), the characters of the artifact file, the
\* dictionary parsed from it and the text combined from the dictionary.
VARIABLES arPc, arPages, arFile, arData, arText
artifactVars == <<arPc, arPages, arFile, arData, arText>>

\* A call of one of the functions checked on their own (the bucketing of
\* classifyFiles, cleanTable, formatPageContent, buildTable): the arguments
\* and what the call returned.
VARIABLES callArgs, callRes
callVars == <<callArgs, callRes>>

\* The chatbot service: the history store of dependencies.py (conversation
\* id to list of messages), the document processor (None until it is
\* initialized), and the request handled last with the response it got.
VARIABLES conversation_history, document_processor, request, response
chatVars == <<conversation_history, document_processor, request, response>>

vars == <<batchVars, searchVars, writeVars, artifactVars, callVars, chatVars>>

\* ------------------------------------------------------------ python values
None == [tag |-> "None"]

\* helperFunctions.getReturnArray for a data argument that is not a list:
\* the data is wrapped in a one-element list.
getReturnArray(status, message, data) ==
    [status |-> status, message |-> message, data |-> <<data>>]

\* ------------------------------------------------------------------ strings
RECURSIVE Join(_, _)
\* sep.join(parts)
Join(parts, sep) ==
    IF parts = <<>> THEN <<>>
    ELSE IF Len(parts) = 1 THEN parts[1]
    ELSE parts[1] \o sep \o Join(Tail(parts), sep)

\* str.lower() on one character; the alphabet has the upper-case letters A, B.
LowerChar(c) ==
    CASE c = "A" -> "a"
      [] c = "B" -> "b"
      [] OTHER -> c

\* str.lower()
Lower(s) == [i \in 1..Len(s) |-> LowerChar(s[i])]

\* `t in s` for strings: t occurs as a contiguous substring of s.
IsSubstring(t, s) ==
    \E i \in 0..(Len(s) - Len(t)) : SubSeq(s, i + 1, i + Len(t)) = t

\* ------------------------------------------------------------- searchTerms
\* round(m / n, 2) in hundredths.  m / n is the double nearest to the
\* quotient; round() rounds its exact value to the nearest hundredth, ties to
\* even.  The quotient is a tie that a double represents exactly only for
\* the odd eighths; every class size used here is below 8 or has no tie.
Round2(m, n) ==
    LET up == (200 * m + n) \div (2 * n)
        tie == (200 * m) % n = 0 /\ ((200 * m) \div n) % 2 = 1
    IN IF tie /\ up % 2 = 1 THEN up - 1 ELSE up

\* The list comprehension of searchTerms:
\* [t for t in terms if t.lower() in extractedText]
MatchedTerms(terms, extractedText) ==
    SelectSeq(terms, LAMBDA t : IsSubstring(Lower(t), extractedText))

\* Mutant of Probability: a class without terms has all of its terms matched.
ProbabilityOfAll(terms, extractedText) ==
    IF terms # <<>>
    THEN Round2(Len(MatchedTerms(terms, extractedText)), Len(terms))
    ELSE 100

\* probability = round(len(matchedTerms) / len(terms), 2) if terms else 0.0
Probability(terms, extractedText) ==
    IF terms # <<>>
    THEN Round2(Len(MatchedTerms(terms, extractedText)), Len(terms))
    ELSE 0

\* Mutant of Better: a later class with an equal score replaces the best one.
BetterOrEqual(probability, bestProbablity) == probability >= bestProbablity

\* The comparison that lets a class replace the best one so far.
Better(probability, bestProbablity) == probability > bestProbablity

RECURSIVE BestOf(_, _, _)
\* The loop of searchTerms over termsJson.items(), in iteration order.
\* best = [doc, prob, matched]; the catalogue is a sequence of
\* [name, terms] in the dict's iteration order.
BestOf(termsJson, extractedText, best) ==
    IF termsJson = <<>> THEN best
    ELSE LET docName == termsJson[1].name
             terms == termsJson[1].terms
             matchedTerms == MatchedTerms(terms, extractedText)
             probability == Probability(terms, extractedText)
         IN BestOf(Tail(termsJson), extractedText,
                   IF Better(probability, best.prob)
                   THEN [doc |-> docName, prob |-> probability, matched |-> matchedTerms]
                   ELSE best)

\* A term that is not a string (a number of the spreadsheet) makes t.lower()
\* raise; terms are strings or the value NotAString.
NotAString == <<"#num">>
RaisesOnTerms(termsJson) ==
    \E i \in 1..Len(termsJson) : \E j \in 1..Len(termsJson[i].terms) :
        termsJson[i].terms[j] = NotAString

\* discoverFiles.searchTerms.  The loop raises on a non-string term, and the
\* message of the return statement reads matchedTerms and docName, which are
\* unbound when termsJson is empty; both end in the except branch.
searchTerms(fullFilePath, baseFileName, fileType, extractedText, termsJson, extractedTextFilePath) ==
    IF termsJson = <<>> \/ RaisesOnTerms(termsJson)
    THEN getReturnArray(FALSE, "Error during document matching", None)
    ELSE LET best == BestOf(termsJson, extractedText,
                            [doc |-> <<>>, prob |-> 0, matched |-> <<>>])
         IN getReturnArray(TRUE, "Found matching terms",
              [tag |-> "record",
               classficationStatus |-> best.doc # <<>>,
               fileName |-> baseFileName,
               fileLocation |-> fullFilePath,
               documentType |-> fileType,
               documentClass |-> best.doc,
               matchedConfidenceScore |-> best.prob,
               matchedTerms |-> best.matched,
               extractedTextJsonPath |-> extractedTextFilePath,
               watermark |-> <<>>,
               percentHandwritten |-> 0,
               percentTyped |-> 0])

\* ------------------------------------------------- searchTerms, its inputs
\* Class names of the generated catalogues; a spreadsheet column may be
\* named by the empty string.
ClassNames == {<<>>, <<"C">>, <<"D">>}
\* Terms of the generated catalogues.
TermPool == {<<"a">>, <<"B">>}
\* Lower-cased document texts.
DocTexts == {<<>>, <<"a">>, <<"a", " ", "b">>, <<"b", "a">>}

TermLists == UNION {[1..n -> TermPool] : n \in 0..MaxTerms}

\* Dicts over ClassNames in every iteration order: sequences of distinct names.
NameOrders ==
    {s \in UNION {[1..n -> ClassNames] : n \in 0..Cardinality(ClassNames)} :
        \A i, j \in 1..Len(s) : i # j => s[i] # s[j]}

GeneratedCatalogues ==
    UNION {{[i \in 1..Len(names) |-> [name |-> names[i], terms |-> tl[i]]] :
              tl \in [1..Len(names) -> TermLists]} : names \in NameOrders}

\* A catalogue with a term that is not a string, and one of the shape of the
\* spec's Scenario C.
NumberCatalogue == <<[name |-> <<"C">>, terms |-> <<<<"a">>, NotAString>>]>>
TwoClassCatalogue ==
    <<[name |-> <<"C">>, terms |-> <<<<"a">>, <<"b">>>>],
      [name |-> <<"D">>, terms |-> <<<<"B", "a">>>>]>>
\* A catalogue with a class of many terms of which only the first can occur
\* in a document text.
LargeCatalogue ==
    <<[name |-> <<"C">>,
       terms |-> [i \in 1..LargeClassSize |-> IF i = 1 THEN <<"a">> ELSE <<"z">>]]>>
\* Catalogues with a term that is the empty string.
SampleCatalogues ==
    {<<[name |-> <<"C">>, terms |-> <<<<>>, <<"a">>>>]>>,
     NumberCatalogue, TwoClassCatalogue, LargeCatalogue}


SearchIdle == stArgs = None /\ stRes = None

SearchInit ==
    /\ stArgs \in [tag : {"args"}, extractedText : DocTexts,
                   termsJson : GeneratedCatalogues \cup SampleCatalogues]
    /\ stRes = None

\* One call of searchTerms on the drawn inputs.
SearchTermsCall ==
    /\ stArgs # None
    /\ stRes = None
    /\ stRes' = searchTerms(<<"f">>, <<"f">>, "normal", stArgs.extractedText,
                            stArgs.termsJson, <<"f">>)
    /\ UNCHANGED <<stArgs, batchVars, writeVars, artifactVars, callVars, chatVars>>

\* ---------------------------------------------------------- the batch run
\* Paths.  A file name is the sequence of its dot-separated components.
BatchPath(name) == [folder |-> "batch", name |-> name]
\* os.path.basename
Basename(path) == path.name
\* outputPath + '/' + basename.split('.')[0] + "_extracted.json"
ArtifactPath(outputPath, filePathInput) ==
    [folder |-> outputPath, name |-> <<Basename(filePathInput)[1], "_extracted", "json">>]
\* The '' that the extractors return for the output file name on failure.
NoPath == [folder |-> "", name |-> <<>>]

\* Entries of the batch folder: sig is the type filetype.guess reads from the
\* content ("none": no known signature).
FolderEntries ==
    {[name |-> <<"a", "v1", "pdf">>, sig |-> "pdf"],
     [name |-> <<"a", "v2", "pdf">>, sig |-> "none"],
     [name |-> <<"notes", "txt">>, sig |-> "none"]}

\* Directory listings (os.scandir, in any order): distinct entries.
Folders ==
    {s \in UNION {[1..n -> FolderEntries] : n \in 0..MaxFiles} :
        \A i, j \in 1..Len(s) : i # j => s[i].name # s[j].name}

\* getFileDetails: the guessed type, else the extension after the last dot
\* (with or without an entry of the extension config), else "".
FileType(entry) ==
    IF entry.sig # "none" THEN entry.sig
    ELSE IF Len(entry.name) = 1 THEN ""
    ELSE entry.name[Len(entry.name)]

\* readFiles and pdfBatchConfiguration: the full paths of the entries whose
\* type is 'pdf', in listing order.
PdfBatch(listing) ==
    LET pdfs == SelectSeq(listing, LAMBDA e : FileType(e) = "pdf")
    IN [i \in 1..Len(pdfs) |-> BatchPath(pdfs[i].name)]

\* Page-1 texts that pdfminer's extract_text may return: "w" is a word
\* character, " " white space.
PageOneTexts ==
    {<<>>, <<" ">>, <<"w">>, <<"w", " ", "w">>, <<"w", " ", "w", " ", "w">>}

RECURSIVE WordCount(_)
\* len(text.strip().split()): the number of maximal runs of non-space.
WordCount(text) ==
    IF text = <<>> THEN 0
    ELSE IF text[1] = " " THEN WordCount(Tail(text))
    ELSE IF Len(text) = 1 \/ text[2] = " " THEN 1 + WordCount(Tail(text))
    ELSE WordCount(Tail(text))

\* The body of the loop of classifyFiles for one readable file:
\* the bucket the file is appended to, "none" when it is appended to neither.
Bucket(text, threshold) ==
    IF Len(text) # 0
    THEN IF WordCount(text) >= threshold THEN "normal" ELSE "scanned"
    ELSE "none"

\* ------------------------------------------------------------- extraction
\* What one page gives.  Scanned path: the OCR call raises, or it returns
\* blocks whose formatted page content is `content`.  Normal path: the text
\* and tables of the page combined into `content`.
PageTexts == {<<>>, <<"A">>}
PageOutcomes ==
    {[ocr |-> "raises", content |-> <<>>]} \cup
    {[ocr |-> "ok", content |-> t] : t \in PageTexts}

\* What the file system and the PDF libraries give for one file:
\* fault "missing" (os.path.exists is false), "open" (convert_from_path or
\* pdfplumber.open raises), "write" (writing the artifact raises), "none".
ExtractionInputs ==
    {[fault |-> f, pages |-> <<>>] : f \in {"missing", "open"}} \cup
    {[fault |-> f, pages |-> p] :
        f \in {"none", "write"},
        p \in UNION {[1..n -> PageOutcomes] : n \in 0..MaxPages}}

\* extractTextFromImage, processBlocks and formatPageContent on one page:
\* a raising OCR call is caught and gives no blocks, no blocks give the empty
\* structured result, and that formats to the empty string.
ScannedPageContent(page) ==
    IF page.ocr = "raises" THEN <<>> ELSE page.content

\* scannedFilesExtraction.processPdfToJson: (results, outputFileName).
\* results is the page map page_1..page_n as the sequence of its values.
ScannedPdfToJson(filePathInput, outputPath, ext) ==
    IF ext.fault # "none"
    THEN [result |-> <<>>, outputFileName |-> NoPath]
    ELSE [result |-> [i \in 1..Len(ext.pages) |-> ScannedPageContent(ext.pages[i])],
          outputFileName |-> ArtifactPath(outputPath, filePathInput)]

\* scannedFilesExtraction.processScannedFile
processScannedFile(filePathInput, outputPath, ext) ==
    LET r == ScannedPdfToJson(filePathInput, outputPath, ext)
    IN IF r.result # <<>>
       THEN getReturnArray(TRUE, "Text extraction completed",
                [tag |-> "extraction", result |-> r.result,
                 outputFileName |-> r.outputFileName])
       ELSE getReturnArray(FALSE, "Failed to extract text", None)

\* nonScannedFilesExtraction.processPdfToJson.  The text layer is read
\* without an OCR call: a page of the normal path never has ocr "raises".
NormalPdfToJson(filePathInput, outputPath, ext) ==
    IF ext.fault # "none"
    THEN [result |-> <<>>, outputFileName |-> NoPath]
    ELSE [result |-> [i \in 1..Len(ext.pages) |-> ext.pages[i].content],
          outputFileName |-> ArtifactPath(outputPath, filePathInput)]

\* What processPdfToJson, of either extractor, writes at the artifact path:
\* nothing when it returns before the write, the artifact, or a part of it
\* when the write raises.
ArtifactWritten(ext) ==
    CASE ext.fault = "none" -> "written"
      [] ext.fault = "write" -> "partial"
      [] OTHER -> "nothing"

\* Mutant of processNonScannedFile: an empty page map is a success too.
processNonScannedFileAnyResult(filePathInput, outputPath, ext) ==
    LET r == NormalPdfToJson(filePathInput, outputPath, ext)
    IN getReturnArray(TRUE, "Text extraction completed",
            [tag |-> "extraction", result |-> r.result,
             outputFileName |-> r.outputFileName])

\* nonScannedFilesExtraction.processNonScannedFile
processNonScannedFile(filePathInput, outputPath, ext) ==
    LET r == NormalPdfToJson(filePathInput, outputPath, ext)
    IN IF r.result # <<>>
       THEN getReturnArray(TRUE, "Text extraction completed",
                [tag |-> "extraction", result |-> r.result,
                 outputFileName |-> r.outputFileName])
       ELSE getReturnArray(FALSE, "Failed to extract text", None)

\* discoverFiles.scanDocument.  Every exception ends in the except branch:
\* the subscript of the None data of a failed extraction, and the unbound e
\* of the else branch after a failed searchTerms.
scanDocument(fileName, fileType, DocumentTermsMap, outputFilePath, ext) ==
    LET baseFileName == Basename(fileName)
        details == IF fileType = "scanned"
                   THEN processScannedFile(fileName, outputFilePath, ext)
                   ELSE processNonScannedFile(fileName, outputFilePath, ext)
        failed == getReturnArray(FALSE, "Error during scanning document terms", None)
    IN IF details.data[1].tag = "None" THEN failed
       ELSE LET extractedPageTextMap == details.data[1].result
                extractedTextOutputFileName == details.data[1].outputFileName
            IN IF ~details.status \/ extractedPageTextMap = <<>>
               THEN getReturnArray(FALSE, "No extracted text available", None)
               ELSE IF DocumentTermsMap = <<>>
               THEN getReturnArray(FALSE, "No document terms map provided", None)
               ELSE LET extractedText == Lower(Join(extractedPageTextMap, <<" ">>))
                        found == searchTerms(fileName, baseFileName, fileType,
                                     extractedText, DocumentTermsMap,
                                     extractedTextOutputFileName)
                    IN IF found.status
                       THEN getReturnArray(TRUE, "Scanning of the document completed",
                                           found.data[1])
                       ELSE failed

\* -------------------------------------------------------------- initialize
\* The file system of a run: the term spreadsheet and the batch folder
\* (present or not), the term-catalogue JSON side-file ("absent", "stale":
\* left by an earlier run, "written", "partial": created by a json.dump that
\* raised), the output folder ("absent", "old": present with earlier
\* contents, "fresh": emptied and recreated) and the verification output file.
Absent == [tag |-> "absent"]
OldContent == [tag |-> "old"]

\* Catalogues that extractIdentificationList may read from the spreadsheet.
BatchCatalogues == {<<>>, NumberCatalogue, TwoClassCatalogue}

\* What the environment gives to one call of initialize: env "unset" (a
\* getenv of the path settings is None and the concatenation raises), dirs
\* (whether checkDirectory fails on the output folder or on the extracted
\* text folder), list (extractIdentificationList: "ok", "readFails":
\* read_excel raises, "dumpFails": json.dump raises after the side-file was
\* opened for writing) and the catalogue of the spreadsheet.
InitializeInputs ==
    [env : {"ok", "unset"}, dirs : {"ok", "outFails", "extractedFails"},
     list : {"ok", "readFails", "dumpFails"}, columnJson : BatchCatalogues]

\* helperFunctions.checkDirectory on the output folder, then on the extracted
\* text folder inside it: the state of the output folder afterwards.
CheckDirectories(out, dirs) ==
    IF dirs = "outFails" THEN out ELSE "fresh"

\* Mutant of KeyTermsFileMissing: the existence of the file is not checked.
KeyTermsFileUnchecked(fs0) == FALSE

\* if not os.path.exists(brrKeyTermsFilePath)
KeyTermsFileMissing(fs0) == ~fs0.terms

\* verifyFiles.initialize: [ret, fs], the returnArray and the file system
\* it leaves.
initialize(fs0, in) ==
    IF in.env = "unset"
    THEN [ret |-> getReturnArray(FALSE, "Failed to initialize root path", None),
          fs |-> fs0]
    ELSE
    LET batchFolderOk == fs0.batch
        fs1 == [fs0 EXCEPT !.out = CheckDirectories(fs0.out, in.dirs),
                          !.ver = IF in.dirs = "outFails" THEN fs0.ver ELSE Absent]
    IN IF KeyTermsFileMissing(fs1)
       THEN [ret |-> getReturnArray(FALSE, "BRR key terms file does not exist", None),
             fs |-> fs1]
       ELSE
       LET \* os.remove of the side-file and of the verification output
           fs2 == [fs1 EXCEPT !.side = "absent", !.ver = Absent]
           \* extractIdentificationList
           fs3 == [fs2 EXCEPT !.side = CASE in.list = "ok" -> "written"
                                         [] in.list = "dumpFails" -> "partial"
                                         [] OTHER -> "absent"]
       IN IF in.list # "ok"
          THEN [ret |-> getReturnArray(FALSE, "Failed to extract identification list", None),
                fs |-> fs3]
          ELSE IF ~batchFolderOk
          THEN [ret |-> getReturnArray(FALSE, "The path does not exist!", None),
                fs |-> fs3]
          ELSE IF in.dirs # "ok"
          THEN [ret |-> getReturnArray(FALSE, "Folder error", None), fs |-> fs3]
          ELSE [ret |-> getReturnArray(TRUE,
                          "Initialization of config files and folders is completed",
                          [tag |-> "config", batchFolder |-> "batch",
                           identificationTermsList |-> in.columnJson,
                           extractedTextPath |-> "extracted"]),
                fs |-> fs3]

\* ------------------------------------------------------- the run, its state

FileSystems ==
    {f \in [terms : BOOLEAN, batch : BOOLEAN, side : {"absent", "stale"},
            out : {"absent", "old"}, ver : {Absent, OldContent}] :
        f.ver = OldContent => f.out = "old"}

BatchIdle ==
    /\ pc = "idle"
    /\ fs = None /\ folder = <<>> /\ countThreshold = 0
    /\ identificationList = <<>> /\ pdfBatch = <<>> /\ idx = 0
    /\ scannedFiles = <<>> /\ normalFiles = <<>> /\ finalSearchedFiles = <<>>
    /\ result = None /\ ret = None /\ classified = <<>> /\ hist = <<>>

BatchInit ==
    /\ pc = "initialize"
    /\ fs \in FileSystems
    /\ folder \in Folders
    /\ (~fs.batch => folder = <<>>)
    /\ countThreshold \in 1..MaxThreshold
    /\ identificationList = <<>> /\ pdfBatch = <<>> /\ idx = 0
    /\ scannedFiles = <<>> /\ normalFiles = <<>> /\ finalSearchedFiles = <<>>
    /\ result = None /\ ret = None /\ classified = <<>> /\ hist = <<>>

\* main, lines 128-135 and 150-151: the call of initialize.
Initialize ==
    /\ UNCHANGED <<searchVars, writeVars, artifactVars, callVars, chatVars>>
    /\ pc = "initialize"
    /\ \E in \in InitializeInputs :
         LET r == initialize(fs, in)
         IN /\ fs' = r.fs
            /\ IF r.ret.status
               THEN /\ pc' = "generate"
                    /\ identificationList' = r.ret.data[1].identificationTermsList
                    /\ ret' = ret
               ELSE /\ pc' = "done"
                    /\ identificationList' = identificationList
                    /\ ret' = getReturnArray(r.ret.status, r.ret.message, None)
    /\ UNCHANGED <<folder, countThreshold, pdfBatch, idx, scannedFiles, normalFiles,
                   finalSearchedFiles, result, classified, hist>>

\* ---------------------------------------------------- generateVerification
\* Mutant of AfterScan: the loops end at the first file whose scanDocument
\* fails.
AfterScanStopOnFailure(stage, i, res, nScanned, nNormal) ==
    IF ~res.status THEN [pc |-> "return", idx |-> 0]
    ELSE IF stage = "scanned" /\ i < nScanned THEN [pc |-> "scanned", idx |-> i + 1]
    ELSE IF stage = "scanned" /\ nNormal > 0 THEN [pc |-> "normal", idx |-> 1]
    ELSE IF stage = "normal" /\ i < nNormal THEN [pc |-> "normal", idx |-> i + 1]
    ELSE [pc |-> "return", idx |-> 0]

\* Mutant of AfterScan: a file whose scanDocument failed is tried again.
AfterScanRetry(stage, i, res, nScanned, nNormal) ==
    IF ~res.status THEN [pc |-> stage, idx |-> i]
    ELSE IF stage = "scanned" /\ i < nScanned THEN [pc |-> "scanned", idx |-> i + 1]
    ELSE IF stage = "scanned" /\ nNormal > 0 THEN [pc |-> "normal", idx |-> 1]
    ELSE IF stage = "normal" /\ i < nNormal THEN [pc |-> "normal", idx |-> i + 1]
    ELSE [pc |-> "return", idx |-> 0]

\* Where generateVerification goes after the call of scanDocument for the
\* file at position i of the bucket `stage`: the two for loops, one after the
\* other, visit every file whatever the call returned.
AfterScan(stage, i, res, nScanned, nNormal) ==
    IF stage = "scanned" /\ i < nScanned THEN [pc |-> "scanned", idx |-> i + 1]
    ELSE IF stage = "scanned" /\ nNormal > 0 THEN [pc |-> "normal", idx |-> 1]
    ELSE IF stage = "normal" /\ i < nNormal THEN [pc |-> "normal", idx |-> i + 1]
    ELSE [pc |-> "return", idx |-> 0]

\* Mutant of Collect: the record is put in front of the list.
CollectInFront(searched, res) ==
    IF res.status THEN <<res.data[1]>> \o searched ELSE searched

\* if results['status']: finalSearchedFiles.append(results['data'][0])
Collect(searched, res) ==
    IF res.status THEN Append(searched, res.data[1]) ELSE searched

\* The except branch of classifyFiles and the check of its status in
\* generateVerification.
ClassificationFailed ==
    getReturnArray(FALSE, "Failed to classify the files in directory", None)

\* generateVerification up to the loop of classifyFiles: the batch folder
\* check, readFiles (cfg: whether the extension config can be read) and
\* pdfBatchConfiguration, whose batchCfg[0] raises on an empty batch.
ClassifyStart ==
    /\ UNCHANGED <<searchVars, writeVars, artifactVars, callVars, chatVars>>
    /\ pc = "generate"
    /\ \E cfg \in {"ok", "unreadable"} :
         LET batch == PdfBatch(folder)
         IN IF ~fs.batch
            THEN /\ result' = getReturnArray(FALSE, "Batch folder does not exist", None)
                 /\ pc' = "write"
                 /\ UNCHANGED <<pdfBatch, idx>>
            ELSE IF cfg = "unreadable" \/ batch = <<>>
            THEN /\ result' = ClassificationFailed
                 /\ pc' = "write"
                 /\ UNCHANGED <<pdfBatch, idx>>
            ELSE /\ pdfBatch' = batch
                 /\ idx' = 1
                 /\ pc' = "classify"
                 /\ UNCHANGED result
    /\ UNCHANGED <<fs, folder, countThreshold, identificationList, scannedFiles,
                   normalFiles, finalSearchedFiles, ret, classified, hist>>

\* One iteration of the loop of classifyFiles: extract_text of page 1 raises
\* on a PDF that cannot be opened or parsed, which ends classifyFiles in its
\* except branch; else the file goes to a bucket, or to none.
ClassifyFile ==
    /\ UNCHANGED <<searchVars, writeVars, artifactVars, callVars, chatVars>>
    /\ pc = "classify"
    /\ \E p1 \in {[readable |-> FALSE, text |-> <<>>]} \cup
                 {[readable |-> TRUE, text |-> t] : t \in PageOneTexts} :
         LET b == Bucket(p1.text, countThreshold)
             sc == IF b = "scanned" THEN Append(scannedFiles, pdfBatch[idx])
                   ELSE scannedFiles
             no == IF b = "normal" THEN Append(normalFiles, pdfBatch[idx])
                   ELSE normalFiles
         IN /\ classified' = Append(classified,
                   [file |-> pdfBatch[idx],
                    pageOne |-> IF ~p1.readable THEN "unreadable"
                                ELSE IF Len(p1.text) = 0 THEN "empty" ELSE "text"])
            /\ IF ~p1.readable
               THEN /\ result' = ClassificationFailed
                    /\ pc' = "write"
                    /\ UNCHANGED <<idx, scannedFiles, normalFiles>>
               ELSE /\ scannedFiles' = sc
                    /\ normalFiles' = no
                    /\ result' = result
                    /\ IF idx < Len(pdfBatch)
                       THEN pc' = "classify" /\ idx' = idx + 1
                       ELSE IF sc # <<>> THEN pc' = "scanned" /\ idx' = 1
                       ELSE IF no # <<>> THEN pc' = "normal" /\ idx' = 1
                       ELSE pc' = "return" /\ idx' = 0
    /\ UNCHANGED <<fs, folder, countThreshold, identificationList, pdfBatch,
                   finalSearchedFiles, ret, hist>>

\* History of the calls of scanDocument, kept for the properties: the file,
\* its bucket, whether the OCR call raised for one of its pages, and the
\* status that scanDocument returned.
Event(file, fileType, ext, res) ==
    [file |-> file, fileType |-> fileType,
     ocrRaised |-> fileType = "scanned" /\ ext.fault = "none" /\
                   \E i \in 1..Len(ext.pages) : ext.pages[i].ocr = "raises",
     status |-> res.status]

\* One iteration of `for file in files['scannedFiles']`.
ScanScannedFile ==
    /\ UNCHANGED <<searchVars, writeVars, artifactVars, callVars, chatVars>>
    /\ pc = "scanned"
    /\ \E ext \in ExtractionInputs :
         LET file == scannedFiles[idx]
             res == scanDocument(file, "scanned", identificationList, "extracted", ext)
             to == AfterScan("scanned", idx, res, Len(scannedFiles), Len(normalFiles))
         IN /\ finalSearchedFiles' = Collect(finalSearchedFiles, res)
            /\ hist' = Append(hist, Event(file, "scanned", ext, res))
            /\ pc' = to.pc
            /\ idx' = to.idx
    /\ UNCHANGED <<fs, folder, countThreshold, identificationList, pdfBatch,
                   scannedFiles, normalFiles, result, ret, classified>>

\* One iteration of `for file in files['normalFiles']`.
ScanNormalFile ==
    /\ UNCHANGED <<searchVars, writeVars, artifactVars, callVars, chatVars>>
    /\ pc = "normal"
    /\ \E ext \in {e \in ExtractionInputs :
                      \A i \in 1..Len(e.pages) : e.pages[i].ocr = "ok"} :
         LET file == normalFiles[idx]
             res == scanDocument(file, "normal", identificationList, "extracted", ext)
             to == AfterScan("normal", idx, res, Len(scannedFiles), Len(normalFiles))
         IN /\ finalSearchedFiles' = Collect(finalSearchedFiles, res)
            /\ hist' = Append(hist, Event(file, "normal", ext, res))
            /\ pc' = to.pc
            /\ idx' = to.idx
    /\ UNCHANGED <<fs, folder, countThreshold, identificationList, pdfBatch,
                   scannedFiles, normalFiles, result, ret, classified>>

\* generateVerification, lines 117-121: dataMontage and the return.
ReturnVerification ==
    /\ UNCHANGED <<searchVars, writeVars, artifactVars, callVars, chatVars>>
    /\ pc = "return"
    /\ result' = getReturnArray(TRUE, "Text verification completed",
                                [tag |-> "dict", batchDocs |-> finalSearchedFiles])
    /\ pc' = "write"
    /\ UNCHANGED <<fs, folder, countThreshold, identificationList, pdfBatch, idx,
                   scannedFiles, normalFiles, finalSearchedFiles, ret, classified, hist>>

\* -------------------------------------------------------------------- main
\* bool(x) of the first element of result['data']: None is falsy, the
\* dataMontage dict has the key batchDocs and is truthy.
Truthy(x) == x.tag # "None"

\* What writeJSON leaves at outPath when it runs to its end: json.dump of
\* data, moved into place.
WrittenJSON(data) == [tag |-> "json", value |-> data]

\* main, lines 136-142: the verification output is written when the result
\* is a success; io is whether writeJSON meets an OSError, which it reports
\* and main logs.
MainWrite ==
    /\ UNCHANGED <<searchVars, writeVars, artifactVars, callVars, chatVars>>
    /\ pc = "write"
    /\ \E io \in {"ok", "fails"} :
         fs' = IF result.status /\ Truthy(result.data[1]) /\ io = "ok"
               THEN [fs EXCEPT !.ver = WrittenJSON(result.data)]
               ELSE fs
    /\ pc' = "cleanup"
    /\ UNCHANGED <<folder, countThreshold, identificationList, pdfBatch, idx,
                   scannedFiles, normalFiles, finalSearchedFiles, result, ret,
                   classified, hist>>

\* main, lines 144-148: the side-file is removed and the result returned.
MainCleanup ==
    /\ UNCHANGED <<searchVars, writeVars, artifactVars, callVars, chatVars>>
    /\ pc = "cleanup"
    /\ fs' = [fs EXCEPT !.side = "absent"]
    /\ ret' = getReturnArray(result.status, result.message, result.data[1])
    /\ pc' = "done"
    /\ UNCHANGED <<folder, countThreshold, identificationList, pdfBatch, idx,
                   scannedFiles, normalFiles, finalSearchedFiles, result, classified, hist>>

BatchNext ==
    \/ Initialize
    \/ ClassifyStart
    \/ ClassifyFile
    \/ ScanScannedFile
    \/ ScanNormalFile
    \/ ReturnVerification
    \/ MainWrite
    \/ MainCleanup





\* ---------------------------------------------------------------- writeJSON
\* A file is absent or holds the chunks written to it so far.
FileOf(chunks) == [tag |-> "text", chunks |-> chunks]

\* temp_path = outPath + '.tmp'
TempPath(outPath) == outPath \o ".tmp"

\* json.dump(data, f, indent=4) of a list: the chunks it writes, in order.
Serialize(data) == <<"[">> \o data \o <<"]">>

\* os.rename(src, dst), the first thing shutil.move tries: the source file
\* is at dst in one step.
Rename(files, src, dst) ==
    IF src = dst THEN files
    ELSE [files EXCEPT ![dst] = files[src], ![src] = Absent]

WritePaths == {"out", TempPath("out")}
WriteDatas == UNION {[1..n -> {"r1", "r2"}] : n \in 0..MaxItems}

WriteIdle ==
    /\ wjPc = "idle" /\ wjData = <<>> /\ wjFiles = None
    /\ wjRet = None /\ wjOld = None

\* The file at outPath is absent or holds an earlier output; the temporary
\* path is free or holds what a crashed earlier call left.
WriteInit ==
    /\ wjPc = "open"
    /\ wjData \in WriteDatas
    /\ wjOld \in {Absent, FileOf(<<"[", "old", "]">>)}
    /\ \E t \in {Absent, FileOf(<<"[">>)} :
         wjFiles = [p \in WritePaths |-> IF p = "out" THEN wjOld ELSE t]
    /\ wjRet = None

\* open(temp_path, 'w'): the file is created or truncated.
WriteOpen ==
    /\ wjPc = "open"
    /\ wjFiles' = [wjFiles EXCEPT ![TempPath("out")] = FileOf(<<>>)]
    /\ wjPc' = "dump"
    /\ UNCHANGED <<wjData, wjRet, wjOld, batchVars, searchVars, artifactVars, callVars, chatVars>>

\* json.dump writes the next chunk.
WriteChunk ==
    /\ wjPc = "dump"
    /\ LET f == wjFiles[TempPath("out")]
       IN /\ Len(f.chunks) < Len(Serialize(wjData))
          /\ wjFiles' = [wjFiles EXCEPT ![TempPath("out")] =
                FileOf(Append(f.chunks, Serialize(wjData)[Len(f.chunks) + 1]))]
    /\ UNCHANGED <<wjPc, wjData, wjRet, wjOld, batchVars, searchVars, artifactVars, callVars, chatVars>>

\* The with block ends after the last chunk and the file is closed.
WriteClose ==
    /\ wjPc = "dump"
    /\ Len(wjFiles[TempPath("out")].chunks) = Len(Serialize(wjData))
    /\ wjPc' = "move"
    /\ UNCHANGED <<wjData, wjFiles, wjRet, wjOld, batchVars, searchVars, artifactVars, callVars, chatVars>>

\* shutil.move(temp_path, outPath) when os.rename succeeds, and the return
\* of the success.
WriteMove ==
    /\ wjPc = "move"
    /\ wjFiles' = Rename(wjFiles, TempPath("out"), "out")
    /\ wjRet' = getReturnArray(TRUE, "Data written", <<>>)
    /\ wjPc' = "returned"
    /\ UNCHANGED <<wjData, wjOld, batchVars, searchVars, artifactVars, callVars, chatVars>>

\* shutil.move(temp_path, outPath) when os.rename raises OSError, as it does
\* on Windows for every destination that exists and elsewhere when the
\* directory does not allow the replacement: shutil.move falls back to
\* copy_function(src, dst), which opens the destination for writing.
WriteMoveFallback ==
    /\ wjPc = "move"
    /\ wjFiles["out"] # Absent
    /\ wjFiles' = [wjFiles EXCEPT !["out"] = FileOf(<<>>)]
    /\ wjPc' = "copy"
    /\ UNCHANGED <<wjData, wjRet, wjOld, batchVars, searchVars, artifactVars, callVars, chatVars>>

\* The copy of the fallback writes the next chunk to the destination.
WriteCopyChunk ==
    /\ wjPc = "copy"
    /\ LET src == wjFiles[TempPath("out")].chunks
           dst == wjFiles["out"].chunks
       IN /\ Len(dst) < Len(src)
          /\ wjFiles' = [wjFiles EXCEPT !["out"] = FileOf(Append(dst, src[Len(dst) + 1]))]
    /\ UNCHANGED <<wjPc, wjData, wjRet, wjOld, batchVars, searchVars, artifactVars, callVars, chatVars>>

\* The copy is complete: os.unlink(src), and the return of the success.
WriteCopyDone ==
    /\ wjPc = "copy"
    /\ wjFiles["out"] = wjFiles[TempPath("out")]
    /\ wjFiles' = [wjFiles EXCEPT ![TempPath("out")] = Absent]
    /\ wjRet' = getReturnArray(TRUE, "Data written", <<>>)
    /\ wjPc' = "returned"
    /\ UNCHANGED <<wjData, wjOld, batchVars, searchVars, artifactVars, callVars, chatVars>>

\* open, json.dump or shutil.move raises: the except branch returns the
\* failure and leaves the files as they are.
WriteRaises ==
    /\ wjPc \in {"open", "dump", "move", "copy"}
    /\ wjRet' = getReturnArray(FALSE, "exception", <<>>)
    /\ wjPc' = "returned"
    /\ UNCHANGED <<wjData, wjFiles, wjOld, batchVars, searchVars, artifactVars, callVars, chatVars>>

\* The process dies between two steps.
WriteCrash ==
    /\ wjPc \in {"open", "dump", "move", "copy"}
    /\ wjPc' = "crashed"
    /\ UNCHANGED <<wjData, wjFiles, wjRet, wjOld, batchVars, searchVars, artifactVars, callVars, chatVars>>

WriteNext ==
    \/ WriteOpen
    \/ WriteChunk
    \/ WriteClose
    \/ WriteMove
    \/ WriteMoveFallback
    \/ WriteCopyChunk
    \/ WriteCopyDone
    \/ WriteRaises
    \/ WriteCrash

\* ------------------------------------------------- the extraction artifact
\* A text is a sequence of characters.  The characters with a meaning for
\* the artifact format carry a name: the backslash, the double quote and the
\* line break.  Every other element is a run of plain characters.
BS == "BS"
DQ == "DQ"
NL == "NL"
Ws == {" ", NL}

\* str.strip()
RECURSIVE Strip(_)
Strip(s) ==
    IF s = <<>> THEN s
    ELSE IF s[1] \in Ws THEN Strip(Tail(s))
    ELSE IF s[Len(s)] \in Ws THEN Strip(SubSeq(s, 1, Len(s) - 1))
    ELSE s

\* str.replace(old, new) for a one-character old.
RECURSIVE ReplaceChar(_, _, _)
ReplaceChar(s, old, new) ==
    IF s = <<>> THEN s
    ELSE (IF s[1] = old THEN new ELSE <<s[1]>>) \o ReplaceChar(Tail(s), old, new)

\* str.replace(old, new) for a two-character old, leftmost first.
RECURSIVE ReplacePair(_, _, _, _)
ReplacePair(s, c1, c2, new) ==
    IF Len(s) < 2 THEN s
    ELSE IF s[1] = c1 /\ s[2] = c2
         THEN new \o ReplacePair(SubSeq(s, 3, Len(s)), c1, c2, new)
         ELSE <<s[1]>> \o ReplacePair(Tail(s), c1, c2, new)

PageKey(i) == "page_" \o ToString(i)

\* The write of the artifact in processPdfToJson: every page as
\* "page_i": """<line break>text<line break>""", between braces.
RECURSIVE ArtifactEntries(_, _)
ArtifactEntries(results, i) ==
    IF i > Len(results) THEN <<>>
    ELSE <<" ", " ", " ", " ", DQ, PageKey(i), DQ, ":", " ", DQ, DQ, DQ, NL>>
         \o results[i] \o <<NL, DQ, DQ, DQ>>
         \o (IF i < Len(results) THEN <<",", NL>> ELSE <<NL>>)
         \o ArtifactEntries(results, i + 1)

WriteArtifact(results) ==
    <<"{", NL>> \o ArtifactEntries(results, 1) \o <<"}", NL>>

\* The outcome of a step of parsing.
Failed == [ok |-> FALSE, val |-> <<>>, next |-> 0]
Parsed(val, next) == [ok |-> TRUE, val |-> val, next |-> next]

IsTripleAt(s, i) ==
    i + 2 <= Len(s) /\ s[i] = DQ /\ s[i + 1] = DQ /\ s[i + 2] = DQ

\* The character after a backslash in a Python string literal: the line
\* break continues the line, x needs two hexadecimal digits after it, a
\* character without a meaning keeps its backslash.
PyEscape(c) ==
    CASE c = "n" -> Parsed(<<NL>>, 0)
      [] c = BS  -> Parsed(<<BS>>, 0)
      [] c = DQ  -> Parsed(<<DQ>>, 0)
      [] c = NL  -> Parsed(<<>>, 0)
      [] c = "x" -> Failed
      [] OTHER   -> Parsed(<<BS, c>>, 0)

\* The character after a backslash in a JSON string.
JsonEscape(c) ==
    CASE c = "n" -> Parsed(<<NL>>, 0)
      [] c = BS  -> Parsed(<<BS>>, 0)
      [] c = DQ  -> Parsed(<<DQ>>, 0)
      [] OTHER   -> Failed

\* The body of a string literal from position i to its closing quotes.  A
\* triple-quoted Python string ends at the first three quotes in a row; any
\* other string ends at the first quote and holds no line break.
RECURSIVE StringBody(_, _, _, _, _)
StringBody(s, i, triple, python, acc) ==
    IF i > Len(s) THEN Failed
    ELSE IF s[i] = BS THEN
        IF i + 1 > Len(s) THEN Failed
        ELSE LET e == IF python THEN PyEscape(s[i + 1]) ELSE JsonEscape(s[i + 1])
             IN IF e.ok THEN StringBody(s, i + 2, triple, python, acc \o e.val)
                ELSE Failed
    ELSE IF triple /\ IsTripleAt(s, i) THEN Parsed(acc, i + 3)
    ELSE IF ~triple /\ s[i] = DQ THEN Parsed(acc, i + 1)
    ELSE IF ~triple /\ s[i] = NL THEN Failed
    ELSE StringBody(s, i + 1, triple, python, acc \o <<s[i]>>)

Token(kind, val) == [kind |-> kind, val |-> val]

\* The value of the JSON literal true.
JsonTrue == <<"True">>

\* The tokens of a dictionary of strings.  A character outside a string
\* that is no brace, colon or comma makes the text no literal; the word true
\* is a value in JSON and a name, hence no literal, in Python.
RECURSIVE Tokens(_, _, _, _)
Tokens(s, i, python, toks) ==
    IF i > Len(s) THEN Parsed(toks, i)
    ELSE IF s[i] \in Ws THEN Tokens(s, i + 1, python, toks)
    ELSE IF s[i] \in {"{", "}", ":", ","}
         THEN Tokens(s, i + 1, python, Append(toks, Token(s[i], <<>>)))
    ELSE IF s[i] = DQ THEN
        LET triple == python /\ IsTripleAt(s, i)
            body == StringBody(s, IF triple THEN i + 3 ELSE i + 1, triple,
                               python, <<>>)
        IN IF body.ok
           THEN Tokens(s, body.next, python, Append(toks, Token("str", body.val)))
           ELSE Failed
    ELSE IF s[i] = "true" /\ ~python
         THEN Tokens(s, i + 1, python, Append(toks, Token("true", JsonTrue)))
    ELSE Failed

\* One string; in Python, string literals in a row are one string.
RECURSIVE ReadStrings(_, _, _, _, _)
ReadStrings(toks, i, python, acc, any) ==
    IF i <= Len(toks) /\ toks[i].kind = "str" /\ (python \/ ~any)
    THEN ReadStrings(toks, i + 1, python, acc \o toks[i].val, TRUE)
    ELSE IF any THEN Parsed(acc, i) ELSE Failed

\* dict semantics: a key that is there already gets the new value.
Put(dict, key, value) ==
    IF \E j \in 1..Len(dict) : dict[j].key = key
    THEN [j \in 1..Len(dict) |->
            IF dict[j].key = key THEN [key |-> key, value |-> value] ELSE dict[j]]
    ELSE Append(dict, [key |-> key, value |-> value])

RECURSIVE ParseEntries(_, _, _, _)
ParseEntries(toks, i, python, dict) ==
    LET k == ReadStrings(toks, i, python, <<>>, FALSE)
        v == IF k.next + 1 <= Len(toks) /\ toks[k.next + 1].kind = "true"
             THEN Parsed(JsonTrue, k.next + 2)
             ELSE ReadStrings(toks, k.next + 1, python, <<>>, FALSE)
        j == v.next
        dict2 == Put(dict, k.val, v.val)
    IN IF ~k.ok THEN Failed
       ELSE IF k.next > Len(toks) \/ toks[k.next].kind # ":" THEN Failed
       ELSE IF ~v.ok THEN Failed
       ELSE IF j > Len(toks) THEN Failed
       ELSE IF toks[j].kind = "}"
            THEN (IF j = Len(toks) THEN Parsed(dict2, j + 1) ELSE Failed)
       ELSE IF toks[j].kind # "," THEN Failed
       ELSE IF python /\ j + 1 = Len(toks) /\ toks[j + 1].kind = "}"
            THEN Parsed(dict2, j + 2)
       ELSE ParseEntries(toks, j + 1, python, dict2)

ParseDict(s, python) ==
    LET t == Tokens(s, 1, python, <<>>)
        toks == t.val
    IN IF ~t.ok THEN Failed
       ELSE IF Len(toks) < 2 \/ toks[1].kind # "{" THEN Failed
       ELSE IF toks[2].kind = "}"
            THEN (IF Len(toks) = 2 THEN Parsed(<<>>, 3) ELSE Failed)
       ELSE ParseEntries(toks, 2, python, <<>>)

\* ast.literal_eval(content) and json.loads(content) on the text of a
\* dictionary of strings.
literal_eval(content) == ParseDict(content, TRUE)
json_loads(content) == ParseDict(content, FALSE)

\* The first position from i on where three quotes stand in a row, or 0.
RECURSIVE FindTriple(_, _)
FindTriple(s, i) ==
    IF i + 2 > Len(s) THEN 0
    ELSE IF IsTripleAt(s, i) THEN i
    ELSE FindTriple(s, i + 1)

replace_triple_quotes(text) ==
    Strip(ReplaceChar(ReplaceChar(text, DQ, <<BS, DQ>>), NL, <<BS, "n">>))

\* re.sub(r'"""([\s\S]*?)"""', replace_triple_quotes, content)
RECURSIVE SubTripleQuotes(_, _)
SubTripleQuotes(s, i) ==
    LET a == FindTriple(s, i)
        b == FindTriple(s, a + 3)
    IN IF a = 0 \/ b = 0 THEN SubSeq(s, i, Len(s))
       ELSE SubSeq(s, i, a - 1) \o <<DQ>>
            \o replace_triple_quotes(SubSeq(s, a + 3, b - 1)) \o <<DQ>>
            \o SubTripleQuotes(s, b + 3)

\* Mutant of fix_json_manually: the content is parsed as it is.
fix_json_unrepaired(content) ==
    LET r == json_loads(content)
    IN IF r.ok THEN r.val ELSE <<>>

fix_json_manually(content) ==
    LET r == json_loads(SubTripleQuotes(content, 1))
    IN IF r.ok THEN r.val ELSE <<>>

parse_python_style_json(content) ==
    LET r == literal_eval(content)
    IN IF r.ok THEN r.val ELSE fix_json_manually(content)

\* page_key.startswith('page_')
IsPageKey(key) == \E i \in 1..MaxPages : key = <<PageKey(i)>>

\* page_content.replace('\\n', '\n').replace('\\"', '"')
CleanContent(page_content) ==
    ReplacePair(ReplacePair(page_content, BS, "n", <<NL>>), BS, DQ, <<DQ>>)

RECURSIVE CombinedText(_, _)
CombinedText(extracted_data, i) ==
    IF i > Len(extracted_data) THEN <<>>
    ELSE (IF IsPageKey(extracted_data[i].key)
          THEN CleanContent(extracted_data[i].value) \o <<NL, NL>>
          ELSE <<>>)
         \o CombinedText(extracted_data, i + 1)

extract_text_content(extracted_data) == Strip(CombinedText(extracted_data, 1))

\* The page texts processPdfToJson stores: full_text.strip(), so a text
\* neither starts nor ends with a line break.
ArtifactChars == {"x", "n", BS, DQ, NL}
TextsUpTo(n) ==
    {t \in UNION {[1..k -> ArtifactChars] : k \in 0..n} : Strip(t) = t}
\* One page with any text, or several pages with short texts.
PageMaps ==
    [1..1 -> TextsUpTo(MaxTextLen)]
        \cup UNION {[1..n -> TextsUpTo(1)] : n \in 2..MaxPages}

ArtifactIdle ==
    /\ arPc = "idle" /\ arPages = <<>> /\ arFile = None
    /\ arData = None /\ arText = None

ArtifactInit ==
    /\ arPc = "write"
    /\ arPages \in PageMaps
    /\ arFile = None /\ arData = None /\ arText = None

ArtifactWrite ==
    /\ arPc = "write"
    /\ arFile' = WriteArtifact(arPages)
    /\ arPc' = "parse"
    /\ UNCHANGED <<arPages, arData, arText, batchVars, searchVars, writeVars, callVars, chatVars>>

ArtifactParse ==
    /\ arPc = "parse"
    /\ arData' = parse_python_style_json(arFile)
    /\ arPc' = "extract"
    /\ UNCHANGED <<arPages, arFile, arText, batchVars, searchVars, writeVars, callVars, chatVars>>

ArtifactExtract ==
    /\ arPc = "extract"
    /\ arText' = extract_text_content(arData)
    /\ arPc' = "done"
    /\ UNCHANGED <<arPages, arFile, arData, batchVars, searchVars, writeVars, callVars, chatVars>>

ArtifactNext ==
    \/ ArtifactWrite
    \/ ArtifactParse
    \/ ArtifactExtract

\* ------------------------------------------- classifyFiles, one file alone
CallIdle == callArgs = None /\ callRes = None
\* The chatbot service is not running.
ChatIdle ==
    /\ conversation_history = None
    /\ document_processor = None
    /\ request = None
    /\ response = None
\* What a call returned.
Returned(value) == [tag |-> "returned", value |-> value]

\* No call is in progress in the other parts of the state.
OthersIdle == BatchIdle /\ SearchIdle /\ WriteIdle /\ ArtifactIdle /\ ChatIdle

\* The COUNT_THRESHOLD of the spec's scenarios.
ScenarioThreshold == 5
\* A page-1 text of ten words.
TenWords ==
    [i \in 1..19 |-> IF i % 2 = 1 THEN "w" ELSE " "]

\* A PDF as the texts of its pages.
PdfDocs == UNION {[1..n -> PageOneTexts \cup {TenWords}] : n \in 0..MaxPages}

\* Mutant of extract_text: the text of every page of the file.
extract_text_all(doc, page_numbers) ==
    Join(doc, <<>>)

\* pdfminer's extract_text(file, page_numbers=...): the text of the pages
\* with these zero-based numbers.
extract_text(doc, page_numbers) ==
    Join([k \in 1..Len(SelectSeq(page_numbers, LAMBDA n : n < Len(doc))) |->
             doc[SelectSeq(page_numbers, LAMBDA n : n < Len(doc))[k] + 1]], <<>>)

ClassifyInit ==
    /\ callArgs \in [tag : {"classify"}, doc : PdfDocs,
                     threshold : (1..MaxThreshold) \cup {ScenarioThreshold}]
    /\ callRes = None

\* The body of the loop of classifyFiles on one file.
ClassifyCall ==
    /\ callArgs # None /\ callArgs.tag = "classify"
    /\ callRes = None
    /\ callRes' = Returned(Bucket(extract_text(callArgs.doc, <<0>>),
                                 callArgs.threshold))
    /\ UNCHANGED <<callArgs, batchVars, searchVars, writeVars, artifactVars, chatVars>>

\* ------------------------------------------------------------- cleanTable
\* Texts of a cell: empty, white space only, or with characters.
CellTexts == {"", " ", "A", "B"}

\* Grids of r rows and c columns with at most MaxCells cells, the grids
\* without rows and the rows without cells included.
Grids ==
    UNION {UNION {[1..r -> [1..c -> CellTexts]] :
                     c \in {k \in 0..MaxCells : r * k <= MaxCells}} :
              r \in 0..MaxCells}

\* Mutant of IsNonBlank: a cell of white space counts as text.
IsNonEmpty(cell) == cell # ""

\* cell.strip() is a non-empty string.
IsNonBlank(cell) == cell \notin {"", " "}

\* any(cell.strip() for cell in row)
AnyNonBlank(row) == \E j \in 1..Len(row) : IsNonBlank(row[j])

\* list(zip(*rows)): as many tuples as the shortest row has cells.
Zip(rows) ==
    IF rows = <<>> THEN <<>>
    ELSE LET n == CHOOSE k \in 0..MaxCells + 1 :
                     /\ \A i \in 1..Len(rows) : k <= Len(rows[i])
                     /\ \E i \in 1..Len(rows) : k = Len(rows[i])
         IN [j \in 1..n |-> [i \in 1..Len(rows) |-> rows[i][j]]]

\* scannedFilesExtraction.cleanTable
cleanTable(table) ==
    IF table = <<>> THEN <<>>
    ELSE LET rows == SelectSeq(table, AnyNonBlank)
         IN IF rows = <<>> THEN <<>>
            ELSE Zip(SelectSeq(Zip(rows), AnyNonBlank))

CleanTableInit ==
    /\ callArgs \in [tag : {"cleanTable"}, table : Grids]
    /\ callRes = None

CleanTableCall ==
    /\ callArgs # None /\ callArgs.tag = "cleanTable"
    /\ callRes = None
    /\ callRes' = Returned(cleanTable(callArgs.table))
    /\ UNCHANGED <<callArgs, batchVars, searchVars, writeVars, artifactVars, chatVars>>

\* ------------------------------------------------- scanDocument, one file
\* The extraction inputs of a file of the normal bucket: no OCR call.
NormalExtractionInputs ==
    {e \in ExtractionInputs : \A i \in 1..Len(e.pages) : e.pages[i].ocr = "ok"}

ScanDocumentInit ==
    /\ callArgs \in [tag : {"scanDocument"}, fileType : {"normal"},
                     ext : NormalExtractionInputs, termsMap : BatchCatalogues]
               \cup [tag : {"scanDocument"}, fileType : {"scanned"},
                     ext : ExtractionInputs, termsMap : BatchCatalogues]
    /\ callRes = None

\* One call of scanDocument, with what the extractor under it returned and
\* wrote.
ScanDocumentCall ==
    /\ callArgs # None /\ callArgs.tag = "scanDocument"
    /\ callRes = None
    /\ LET file == BatchPath(<<"a", "pdf">>)
       IN callRes' = Returned(
            [pdfToJson |-> IF callArgs.fileType = "normal"
                           THEN NormalPdfToJson(file, "extracted", callArgs.ext)
                           ELSE ScannedPdfToJson(file, "extracted", callArgs.ext),
             artifact |-> ArtifactWritten(callArgs.ext),
             details |-> IF callArgs.fileType = "normal"
                         THEN processNonScannedFile(file, "extracted", callArgs.ext)
                         ELSE processScannedFile(file, "extracted", callArgs.ext),
             scan |-> scanDocument(file, callArgs.fileType, callArgs.termsMap,
                                   "extracted", callArgs.ext)])
    /\ UNCHANGED <<callArgs, batchVars, searchVars, writeVars, artifactVars, chatVars>>

\* ------------------------------------------------------ formatPageContent
\* sep.join(strings), a string.
RECURSIVE JoinStr(_, _)
JoinStr(strings, sep) ==
    IF strings = <<>> THEN ""
    ELSE IF Len(strings) = 1 THEN strings[1]
    ELSE strings[1] \o sep \o JoinStr(Tail(strings), sep)

\* One line of a Markdown table.
MarkdownRow(cells) == "| " \o JoinStr(cells, " | ") \o " |"

\* scannedFilesExtraction.tableToMarkdown: the lines of the Markdown table,
\* none when the table is empty or cleans to the empty grid.
tableToMarkdown(table) ==
    IF table = <<>> \/ \A i \in 1..Len(table) : table[i] = <<>> THEN <<>>
    ELSE LET cleaned == cleanTable(table)
         IN IF Len(cleaned) = 0 THEN <<>>
            ELSE <<MarkdownRow(cleaned[1]),
                   MarkdownRow([j \in 1..Len(cleaned[1]) |-> "---"])>>
                 \o [i \in 1..(Len(cleaned) - 1) |-> MarkdownRow(cleaned[i + 1])]

\* text.strip() of an item that is one word or blank.
StripItem(text) == IF text = " " THEN "" ELSE text

\* Mutant of PopFirst: list.pop(), the last item.
PopLast(items) ==
    [item |-> items[Len(items)], rest |-> SubSeq(items, 1, Len(items) - 1)]

\* list.pop(0): the first item, and the list without it.
PopFirst(items) == [item |-> Head(items), rest |-> Tail(items)]

\* The loop over the section headers: the lines so far and what is left of
\* rawText and tables.
RECURSIVE HeaderLoop(_, _, _, _)
HeaderLoop(headers, rawText, tables, contentLines) ==
    IF headers = <<>>
    THEN [contentLines |-> contentLines, rawText |-> rawText, tables |-> tables]
    ELSE LET l1 == contentLines \o <<"## " \o Head(headers), "">>
             l2 == IF rawText # <<>>
                   THEN l1 \o <<"", StripItem(PopFirst(rawText).item), "">>
                   ELSE l1
             raw2 == IF rawText # <<>> THEN PopFirst(rawText).rest ELSE rawText
             tableMd == tableToMarkdown(PopFirst(tables).item)
             l3 == IF tables # <<>> /\ tableMd # <<>>
                   THEN l2 \o tableMd \o <<"">>
                   ELSE l2
             tables2 == IF tables # <<>> THEN PopFirst(tables).rest ELSE tables
         IN HeaderLoop(Tail(headers), raw2, tables2, l3)

\* The loop over the remaining raw text.
RECURSIVE RemainingText(_)
RemainingText(rawText) ==
    IF rawText = <<>> THEN <<>>
    ELSE (IF StripItem(Head(rawText)) # ""
          THEN <<StripItem(Head(rawText)), "">> ELSE <<>>)
         \o RemainingText(Tail(rawText))

\* The loop over the remaining tables.
RECURSIVE RemainingTables(_)
RemainingTables(tables) ==
    IF tables = <<>> THEN <<>>
    ELSE (IF tableToMarkdown(Head(tables)) # <<>>
          THEN tableToMarkdown(Head(tables)) \o <<"">> ELSE <<>>)
         \o RemainingTables(Tail(tables))

\* The loop over the key-value pairs.
RECURSIVE KeyValueLines(_)
KeyValueLines(keyValuePairs) ==
    IF keyValuePairs = <<>> THEN <<>>
    ELSE <<Head(keyValuePairs)[1], Head(keyValuePairs)[2], "">>
         \o KeyValueLines(Tail(keyValuePairs))

\* "\n".join(contentLines).strip(), as its lines: no empty line at either end.
RECURSIVE StripLines(_)
StripLines(lines) ==
    IF lines = <<>> THEN lines
    ELSE IF lines[1] = "" THEN StripLines(Tail(lines))
    ELSE IF lines[Len(lines)] = "" THEN StripLines(SubSeq(lines, 1, Len(lines) - 1))
    ELSE lines

\* scannedFilesExtraction.formatPageContent: the lines of the page content.
formatPageContent(page) ==
    LET h == HeaderLoop(page.sectionHeaders, page.rawText, page.tables, <<>>)
    IN StripLines(h.contentLines \o RemainingText(h.rawText)
                  \o RemainingTables(h.tables)
                  \o KeyValueLines(page.keyValuePairs))

\* What processBlocks gives for a page: headers "Summary 1".., raw-text
\* items R1.., tables T1.. (one of an empty cell, one of one cell, one of two
\* rows with an empty column), and key-value pairs, one with an empty value.
ItemsNamed(letter, n) == [i \in 1..n |-> letter \o ToString(i)]
TableOf(name, kind) ==
    CASE kind = "blank" -> <<<<"">>>>
      [] kind = "cell" -> <<<<name>>>>
      [] OTHER -> <<<<name, "">>, <<"v", "">>>>
TableLists ==
    UNION {{[i \in 1..n |-> TableOf("T" \o ToString(i), kinds[i])] :
               kinds \in [1..n -> {"blank", "cell", "rows"}]} : n \in 0..MaxBlocks}
PageResults ==
    [sectionHeaders : {ItemsNamed("Summary ", n) : n \in 0..MaxBlocks},
     rawText : {ItemsNamed("R", n) : n \in 0..MaxBlocks},
     tables : TableLists,
     keyValuePairs : {<<>>, <<<<"K1", "V1">>>>, <<<<"K1", "V1">>, <<"K2", "">>>>}]

FormatInit ==
    /\ callArgs \in [tag : {"formatPageContent"}, result : PageResults]
    /\ callRes = None

FormatCall ==
    /\ callArgs # None /\ callArgs.tag = "formatPageContent"
    /\ callRes = None
    /\ callRes' = Returned(formatPageContent(callArgs.result))
    /\ UNCHANGED <<callArgs, batchVars, searchVars, writeVars, artifactVars, chatVars>>

\* ------------------------------------------------------------- buildTable
\* A Textract block; Ids are the ids of its CHILD relationship. Texts are
\* sequences of characters.
Block(type, row, col, ids, text) ==
    [BlockType |-> type, RowIndex |-> row, ColumnIndex |-> col,
     Ids |-> ids, Text |-> text]

\* The loop of getTextFromChildren: the texts of the WORD and LINE children
\* that are in blockMap, each followed by a space.
RECURSIVE ChildrenText(_, _)
ChildrenText(ids, blockMap) ==
    IF ids = <<>> THEN <<>>
    ELSE (IF Head(ids) \in DOMAIN blockMap
             /\ blockMap[Head(ids)].BlockType \in {"WORD", "LINE"}
          THEN blockMap[Head(ids)].Text \o <<" ">> ELSE <<>>)
         \o ChildrenText(Tail(ids), blockMap)

\* scannedFilesExtraction.getTextFromChildren
getTextFromChildren(block, blockMap) == Strip(ChildrenText(block.Ids, blockMap))

\* The first loop of buildTable: row, column and text of the CELL children
\* that are in blockMap.
RECURSIVE CellsOf(_, _)
CellsOf(ids, blockMap) ==
    IF ids = <<>> THEN <<>>
    ELSE (IF Head(ids) \in DOMAIN blockMap /\ blockMap[Head(ids)].BlockType = "CELL"
          THEN <<[row |-> blockMap[Head(ids)].RowIndex,
                  col |-> blockMap[Head(ids)].ColumnIndex,
                  text |-> getTextFromChildren(blockMap[Head(ids)], blockMap)]>>
          ELSE <<>>)
         \o CellsOf(Tail(ids), blockMap)

\* Mutant of MaxOf: min(...).
MinOf(S) == CHOOSE x \in S : \A y \in S : x <= y

\* max(...) of a non-empty set of numbers.
MaxOf(S) == CHOOSE x \in S : \A y \in S : y <= x

\* The second loop of buildTable: every cell inside the grid is written at
\* its row and column.
RECURSIVE FillTable(_, _)
FillTable(table, cells) ==
    IF cells = <<>> THEN table
    ELSE LET cell == Head(cells)
         IN FillTable(IF cell.row - 1 < Len(table) /\ cell.col - 1 < Len(table[1])
                      THEN [table EXCEPT ![cell.row][cell.col] = cell.text]
                      ELSE table,
                      Tail(cells))

\* A Python list as a value that can be compared with None.
PyList(items) == [tag |-> "list", items |-> items]

\* scannedFilesExtraction.buildTable: None, or the grid as a list of rows.
buildTable(tableBlock, blockMap) ==
    LET cells == CellsOf(tableBlock.Ids, blockMap)
    IN IF cells = <<>> THEN None
       ELSE LET maxRow == MaxOf({cells[i].row : i \in 1..Len(cells)})
                maxCol == MaxOf({cells[i].col : i \in 1..Len(cells)})
            IN PyList(FillTable([r \in 1..maxRow |-> [c \in 1..maxCol |-> <<>>]],
                                cells))

\* The blocks of a page apart from its TABLE block: CELL blocks c1 (two
\* words) and c2 (no word, or a word and an id that is not on the page) at
\* two different places of the grid, and WORD blocks w1, w2.
BlockMaps ==
    {[id \in {"c1", "c2", "w1", "w2"} |->
         CASE id = "c1" -> Block("CELL", p[1], p[2], <<"w1", "w2">>, <<>>)
           [] id = "c2" -> Block("CELL", q[1], q[2], ids, <<>>)
           [] id = "w1" -> Block("WORD", 0, 0, <<>>, <<"a">>)
           [] OTHER -> Block("WORD", 0, 0, <<>>, <<"b", "c">>)] :
        p \in (1..MaxIndex) \X (1..MaxIndex),
        q \in (1..MaxIndex) \X (1..MaxIndex),
        ids \in {<<>>, <<"gone", "w2">>}}

\* The TABLE blocks: up to MaxChildren different child ids, of cells, of a
\* word and of a block that is not on the page.
TableBlocks ==
    {Block("TABLE", 0, 0, ids, <<>>) :
        ids \in {s \in UNION {[1..n -> {"c1", "c2", "w1", "gone"}] : n \in 0..MaxChildren} :
                    \A i, j \in 1..Len(s) : s[i] = s[j] => i = j}}

BuildTableInit ==
    /\ callArgs \in {a \in [tag : {"buildTable"}, tableBlock : TableBlocks,
                            blockMap : BlockMaps] :
                        <<a.blockMap["c1"].RowIndex, a.blockMap["c1"].ColumnIndex>>
                            # <<a.blockMap["c2"].RowIndex, a.blockMap["c2"].ColumnIndex>>}
    /\ callRes = None

\* The first pass of processBlocks on the TABLE block: the grid is added to
\* the page's tables when buildTable gives a non-empty one.
BuildTableCall ==
    /\ callArgs # None /\ callArgs.tag = "buildTable"
    /\ callRes = None
    /\ LET table_result == buildTable(callArgs.tableBlock, callArgs.blockMap)
       IN callRes' = Returned([table_result |-> table_result,
                               tables |-> IF table_result # None
                                             /\ table_result.items # <<>>
                                          THEN <<table_result.items>> ELSE <<>>])
    /\ UNCHANGED <<callArgs, batchVars, searchVars, writeVars, artifactVars, chatVars>>

\* ---------------------------------------------------------- processBlocks
\* blockMap = {block['Id']: block for block in blocks}: a later block with
\* the same Id replaces an earlier one.
BlockMapOf(blocks) ==
    [id \in {blocks[i].Id : i \in 1..Len(blocks)} |->
        blocks[CHOOSE i \in 1..Len(blocks) :
                  /\ blocks[i].Id = id
                  /\ \A j \in (i + 1)..Len(blocks) : blocks[j].Id # id]]

\* The first pass: the grids of the TABLE blocks for which buildTable gives
\* a non-empty one, in block order.
RECURSIVE TablesOf(_, _)
TablesOf(blocks, blockMap) ==
    IF blocks = <<>> THEN <<>>
    ELSE LET table_result == IF Head(blocks).BlockType = "TABLE"
                             THEN buildTable(Head(blocks), blockMap) ELSE None
         IN (IF table_result # None /\ table_result.items # <<>>
             THEN <<table_result.items>> ELSE <<>>)
            \o TablesOf(Tail(blocks), blockMap)

\* tableTexts: cell.strip().lower() of the cells where it is not empty.
TableTextsOf(tables) ==
    {Lower(Strip(tables[t][r][c])) :
        <<t, r, c>> \in {x \in (1..Len(tables)) \X (1..MaxIndex + 1) \X (1..MaxIndex + 1) :
                            /\ x[2] <= Len(tables[x[1]])
                            /\ x[3] <= Len(tables[x[1]][x[2]])}} \ {<<>>}

\* Mutant of MatchesTableText: only a line inside a cell text is skipped.
InsideTableText(text_lower, tableTexts) ==
    \E table_text \in tableTexts : IsSubstring(text_lower, table_text)

\* any(text_lower in table_text or table_text in text_lower ...)
MatchesTableText(text_lower, tableTexts) ==
    \E table_text \in tableTexts :
        IsSubstring(text_lower, table_text) \/ IsSubstring(table_text, text_lower)

\* text.startswith('##') or "summary" in text_lower or "results" in text_lower
IsSectionHeader(text) ==
    \/ Len(text) >= 2 /\ SubSeq(text, 1, 2) = <<"#", "#">>
    \/ IsSubstring(<<"s", "u", "m", "m", "a", "r", "y">>, Lower(text))
    \/ IsSubstring(<<"r", "e", "s", "u", "l", "t", "s">>, Lower(text))

\* The value text of a KEY block: the texts of the VALUE blocks on the page,
\* each followed by a space.
RECURSIVE ValueText(_, _)
ValueText(ids, blockMap) ==
    IF ids = <<>> THEN <<>>
    ELSE (IF Head(ids) \in DOMAIN blockMap
          THEN getTextFromChildren(blockMap[Head(ids)], blockMap) \o <<" ">>
          ELSE <<>>)
         \o ValueText(Tail(ids), blockMap)

\* The second pass over the blocks.
RECURSIVE SecondPass(_, _, _, _)
SecondPass(blocks, blockMap, tableTexts, acc) ==
    IF blocks = <<>> THEN acc
    ELSE LET block == Head(blocks)
             text == Strip(block.Text)
             next ==
               IF block.BlockType = "KEY_VALUE_SET"
               THEN IF "KEY" \in block.EntityTypes
                    THEN [acc EXCEPT !.keyValuePairs =
                            Append(@, <<Strip(getTextFromChildren(block, blockMap)),
                                        Strip(ValueText(block.ValueIds, blockMap))>>)]
                    ELSE acc
               ELSE IF block.BlockType = "LINE"
               THEN IF text = <<>> THEN acc
                    ELSE IF MatchesTableText(Lower(text), tableTexts) THEN acc
                    ELSE IF IsSectionHeader(text)
                    THEN [acc EXCEPT !.sectionHeaders = Append(@, text)]
                    ELSE [acc EXCEPT !.rawText = Append(@, text)]
               ELSE acc
         IN SecondPass(Tail(blocks), blockMap, tableTexts, next)

\* scannedFilesExtraction.processBlocks
processBlocks(blocks) ==
    LET blockMap == BlockMapOf(blocks)
        tables == TablesOf(blocks, blockMap)
    IN SecondPass(blocks, blockMap, TableTextsOf(tables),
                  [keyValuePairs |-> <<>>, sectionHeaders |-> <<>>,
                   tables |-> tables, rawText |-> <<>>])

\* A block of a page with its Id; for a KEY_VALUE_SET block its entity types
\* and the ids of its VALUE relationship.
PageBlock(id, type, row, col, ids, text, entity, valueIds) ==
    [Id |-> id, BlockType |-> type, RowIndex |-> row, ColumnIndex |-> col,
     Ids |-> ids, Text |-> text, EntityTypes |-> entity, ValueIds |-> valueIds]

\* The texts of the LINE blocks: blank, equal to a cell text but for the
\* case, inside one, around one, a header by its marker, a header by its
\* word that also holds a cell text, and a plain line.
LineTexts ==
    {<<" ">>, <<"A">>, <<"b">>, <<"x", "B", "c", " ">>, <<"#", "#", "x">>,
     <<"s", "u", "m", "m", "A", "r", "y">>, <<"r", "e", "s", "u", "l", "t", "s">>,
     <<"x">>}

\* The blocks other than LINE blocks that a page can hold: a table with the
\* cells "a" and "", a table with the cell "Bc", a table whose only child is
\* not on the page, and a key with its value.
TableParts(kind) ==
    CASE kind = "a" ->
           <<PageBlock("t1", "TABLE", 0, 0, <<"c1", "c2">>, <<>>, {}, <<>>),
             PageBlock("c1", "CELL", 1, 1, <<"w1">>, <<>>, {}, <<>>),
             PageBlock("c2", "CELL", 1, 2, <<>>, <<>>, {}, <<>>),
             PageBlock("w1", "WORD", 0, 0, <<>>, <<"a">>, {}, <<>>)>>
      [] kind = "bc" ->
           <<PageBlock("t2", "TABLE", 0, 0, <<"c3">>, <<>>, {}, <<>>),
             PageBlock("c3", "CELL", 1, 1, <<"w2">>, <<>>, {}, <<>>),
             PageBlock("w2", "WORD", 0, 0, <<>>, <<"B", "c">>, {}, <<>>)>>
      [] kind = "gone" ->
           <<PageBlock("t3", "TABLE", 0, 0, <<"gone">>, <<>>, {}, <<>>)>>
      [] kind = "kv" ->
           <<PageBlock("k1", "KEY_VALUE_SET", 0, 0, <<"w3">>, <<>>, {"KEY"}, <<"v1", "gone">>),
             PageBlock("v1", "KEY_VALUE_SET", 0, 0, <<"w4">>, <<>>, {"VALUE"}, <<>>),
             PageBlock("w3", "WORD", 0, 0, <<>>, <<"k">>, {}, <<>>),
             PageBlock("w4", "WORD", 0, 0, <<>>, <<"v">>, {}, <<>>)>>
      [] OTHER -> <<>>

\* The pages: up to MaxLines LINE blocks, and the other blocks before or
\* after them.
Pages ==
    {IF front THEN TableParts(k1) \o TableParts(k2) \o lines
              ELSE lines \o TableParts(k1) \o TableParts(k2) :
        front \in BOOLEAN,
        k1 \in {"none", "a", "gone"}, k2 \in {"none", "bc", "kv"},
        lines \in UNION {{[i \in 1..n |->
                             PageBlock("l" \o ToString(i), "LINE", 0, 0, <<>>,
                                       texts[i], {}, <<>>)] :
                             texts \in [1..n -> LineTexts]} : n \in 0..MaxLines}}

ProcessBlocksInit ==
    /\ callArgs \in [tag : {"processBlocks"}, blocks : Pages]
    /\ callRes = None

ProcessBlocksCall ==
    /\ callArgs # None /\ callArgs.tag = "processBlocks"
    /\ callRes = None
    /\ callRes' = Returned(processBlocks(callArgs.blocks))
    /\ UNCHANGED <<callArgs, batchVars, searchVars, writeVars, artifactVars, chatVars>>

\* ------------------------------------------- the text of a digital page
\* str(cell) if cell is not None else "": cells are strings or None.
CellString(cell) == IF cell = None THEN <<>> ELSE cell.chars

\* One line of nonScannedFilesExtraction.tableToMarkdown with its line break.
PlumberRow(cells) ==
    <<"|", " ">> \o Join(cells, <<" ", "|", " ">>) \o <<" ", "|", NL>>

\* The loop over table[1:].
RECURSIVE PlumberRows(_)
PlumberRows(rows) ==
    IF rows = <<>> THEN <<>>
    ELSE PlumberRow([j \in 1..Len(Head(rows)) |-> CellString(Head(rows)[j])])
         \o PlumberRows(Tail(rows))

\* nonScannedFilesExtraction.tableToMarkdown
PlumberTableToMarkdown(table) ==
    IF table = <<>> THEN <<>>
    ELSE PlumberRow([j \in 1..Len(table[1]) |-> CellString(table[1][j])])
         \o PlumberRow([j \in 1..Len(table[1]) |-> <<"-", "-", "-">>])
         \o PlumberRows(Tail(table))

\* tables_markdown: the Markdown of every table of the page followed by a
\* line break.
RECURSIVE TablesMarkdown(_)
TablesMarkdown(tables) ==
    IF tables = <<>> THEN <<>>
    ELSE PlumberTableToMarkdown(Head(tables)) \o <<NL>> \o TablesMarkdown(Tail(tables))

\* The combined string of a page in processPdfToJson.
FullText(page_text, tables) ==
    Strip(IF TablesMarkdown(tables) # <<>>
          THEN page_text \o <<NL>> \o TablesMarkdown(tables)
          ELSE page_text)

\* A string cell of a table.
Str(chars) == [chars |-> chars]

\* What pdfplumber gives for a page: the text, lines joined by line breaks
\* ("" for a page without text), and up to MaxBlocks tables with string and
\* None cells.
PlumberTexts == {<<>>, <<"x">>, <<"x", " ", "y">>, <<"x", NL, "y">>}
PlumberTables ==
    UNION {[1..n -> {<<<<Str(<<"A">>)>>>>,
                     <<<<Str(<<"A">>), None>>, <<Str(<<"b">>), Str(<<>>)>>>>}] :
              n \in 0..MaxBlocks}

FullTextInit ==
    /\ callArgs \in [tag : {"fullText"}, page_text : PlumberTexts, tables : PlumberTables]
    /\ callRes = None

FullTextCall ==
    /\ callArgs # None /\ callArgs.tag = "fullText"
    /\ callRes = None
    /\ callRes' = Returned(FullText(callArgs.page_text, callArgs.tables))
    /\ UNCHANGED <<callArgs, batchVars, searchVars, writeVars, artifactVars, chatVars>>

\* ------------------------------------------- reading a malformed artifact
\* The text of a value of an artifact by its kind: a triple-quoted block as
\* processPdfToJson writes it, a plain string, the word true, a block that
\* is not closed, a word without quotes, a block with a fourth quote.
ValueChars(kind) ==
    CASE kind = "triple" -> <<DQ, DQ, DQ, NL, "x", NL, DQ, DQ, DQ>>
      [] kind = "plain" -> <<DQ, "x", DQ>>
      [] kind = "true" -> <<"true">>
      [] kind = "open" -> <<DQ, DQ, DQ, NL, "x">>
      [] kind = "junk" -> <<"x">>
      [] OTHER -> <<DQ, DQ, DQ, "x", DQ, DQ, DQ, DQ>>

\* The content of an artifact with the values of these kinds for page_1,
\* page_2, ..., with or without a comma after the last value and with or
\* without the closing brace.
RECURSIVE EntryChars(_, _)
EntryChars(kinds, i) ==
    IF i > Len(kinds) THEN <<>>
    ELSE <<DQ, PageKey(i), DQ, ":", " ">> \o ValueChars(kinds[i])
         \o (IF i < Len(kinds) THEN <<",", NL>> ELSE <<>>)
         \o EntryChars(kinds, i + 1)
ContentOf(kinds, comma, closed) ==
    <<"{", NL>> \o EntryChars(kinds, 1)
    \o (IF comma THEN <<",">> ELSE <<>>) \o <<NL>>
    \o (IF closed THEN <<"}", NL>> ELSE <<>>)

ValueKinds == {"triple", "plain", "true", "open", "junk", "quote4"}

ParseInit ==
    /\ callArgs \in [tag : {"parse"},
                     kinds : UNION {[1..n -> ValueKinds] : n \in 1..MaxPages},
                     comma : BOOLEAN, closed : BOOLEAN]
    /\ callRes = None

\* parse_python_style_json on the file with this content.
ParseCall ==
    /\ callArgs # None /\ callArgs.tag = "parse"
    /\ callRes = None
    /\ callRes' = Returned(parse_python_style_json(
                      ContentOf(callArgs.kinds, callArgs.comma, callArgs.closed)))
    /\ UNCHANGED <<callArgs, batchVars, searchVars, writeVars, artifactVars, chatVars>>

\* ------------------------------------------------------------ getChunksInfo
\* A row of docSections: code, isFound, start index and end index; the
\* elements, messages, names and pages of a row are left out.
Section(code, isFound, startIndex, endIndex) ==
    [code |-> code, isFound |-> isFound, startIndex |-> startIndex,
     endIndex |-> endIndex]

\* The rows that the loop over the chunks appends for one chunk, by the
\* indices of the elements that hold its start text.
SectionsOfChunk(chunk) ==
    IF chunk.isMultiple
    THEN [k \in 1..Len(chunk.hits) |-> Section(chunk.code, TRUE, chunk.hits[k], 0)]
    ELSE IF Len(chunk.hits) >= 1 THEN <<Section(chunk.code, TRUE, chunk.hits[1], 0)>>
    ELSE IF ~chunk.isOptional THEN <<Section(chunk.code, FALSE, -1, -1)>>
    ELSE <<>>

RECURSIVE SectionsOfChunks(_)
SectionsOfChunks(pdfChunks) ==
    IF pdfChunks = <<>> THEN <<>>
    ELSE SectionsOfChunk(Head(pdfChunks)) \o SectionsOfChunks(Tail(pdfChunks))

\* docSections.sort(key = lambda x: x[2]): a stable sort by start index.
RECURSIVE SortByStart(_)
SortByStart(rows) ==
    IF rows = <<>> THEN rows
    ELSE LET rest == SortByStart(Tail(rows))
             before == SelectSeq(rest, LAMBDA r : r.startIndex < Head(rows).startIndex)
             after == SelectSeq(rest, LAMBDA r : r.startIndex >= Head(rows).startIndex)
         IN before \o <<Head(rows)>> \o after

\* The pass 'Capture and remove all False chunks': i runs over the positions
\* of the list as it was, rows are deleted from the list as it is, and a
\* position past its end is passed over.
RECURSIVE RemoveFalse(_, _, _, _)
RemoveFalse(docSections, finalSections, i, n) ==
    IF i > n THEN [docSections |-> docSections, finalSections |-> finalSections]
    ELSE IF i <= Len(docSections) /\ ~docSections[i].isFound
    THEN RemoveFalse(SubSeq(docSections, 1, i - 1)
                         \o SubSeq(docSections, i + 1, Len(docSections)),
                     Append(finalSections, docSections[i]), i + 1, n)
    ELSE RemoveFalse(docSections, finalSections, i + 1, n)

\* The loop that closes a row at the start of the next row with another
\* code.
RECURSIVE BuildRanges(_, _, _, _)
BuildRanges(docSections, finalSections, tmpElement, i) ==
    IF i > Len(docSections)
    THEN [finalSections |-> finalSections, tmpElement |-> tmpElement]
    ELSE IF tmpElement.code = docSections[i].code
    THEN BuildRanges(docSections, finalSections, tmpElement, i + 1)
    ELSE BuildRanges(docSections,
                     Append(finalSections,
                            Section(tmpElement.code, tmpElement.isFound,
                                    tmpElement.startIndex, docSections[i].startIndex)),
                     docSections[i], i + 1)

\* chunkPDFs.getChunksInfo from the loop over the chunks on: the list after
\* the removal pass and the rows reported; docSections[0] raises when the
\* list is empty.
getChunksInfo(pdfChunks, lastIndex) ==
    LET sorted == SortByStart(SectionsOfChunks(pdfChunks))
        pass == RemoveFalse(sorted, <<>>, 1, Len(sorted))
        ranges == BuildRanges(pass.docSections, pass.finalSections,
                              pass.docSections[1], 1)
    IN IF pass.docSections = <<>>
       THEN [raised |-> TRUE, docSections |-> pass.docSections, chunks |-> <<>>]
       ELSE [raised |-> FALSE, docSections |-> pass.docSections,
             chunks |-> Append(ranges.finalSections,
                               Section(ranges.tmpElement.code, ranges.tmpElement.isFound,
                                       ranges.tmpElement.startIndex, lastIndex))]

\* What the document holds for a chunk: no element with its start text (for
\* a required, an optional or a repeated chunk), one, or several.
ChunkFinds ==
    {[isMultiple |-> FALSE, isOptional |-> o, hits |-> <<>>] : o \in BOOLEAN}
    \cup {[isMultiple |-> FALSE, isOptional |-> FALSE, hits |-> <<k>>] : k \in 0..MaxIndex}
    \cup {[isMultiple |-> FALSE, isOptional |-> FALSE, hits |-> <<1, MaxIndex>>],
          [isMultiple |-> TRUE, isOptional |-> FALSE, hits |-> <<0, MaxIndex>>],
          [isMultiple |-> TRUE, isOptional |-> FALSE, hits |-> <<>>]}

\* The chunk configurations: chunks c1, c2, ... with what the document holds
\* for each.
ChunkConfigs ==
    UNION {{[i \in 1..n |-> [code |-> "c" \o ToString(i),
                             isMultiple |-> f[i].isMultiple,
                             isOptional |-> f[i].isOptional,
                             hits |-> f[i].hits]] :
               f \in [1..n -> ChunkFinds]} : n \in 1..MaxChunks}

ChunksInit ==
    /\ callArgs \in [tag : {"getChunksInfo"}, pdfChunks : ChunkConfigs]
    /\ callRes = None

ChunksCall ==
    /\ callArgs # None /\ callArgs.tag = "getChunksInfo"
    /\ callRes = None
    /\ callRes' = Returned(getChunksInfo(callArgs.pdfChunks, MaxIndex))
    /\ UNCHANGED <<callArgs, batchVars, searchVars, writeVars, artifactVars, chatVars>>

\* -------------------------------------------------- checkVerificationFields
\* The keys of a dict; tag is the mark of the model, not a key.
Keys(dict) == DOMAIN dict \ {"tag"}

\* The branch of the loop of checkVerificationFields that one result takes:
\* "raises" for the branches whose getReturnArray call lacks its third
\* argument, the message of the other failing branches, "" for none.
FieldsVerdict(res) ==
    IF Keys(res) = {} THEN "raises"
    ELSE IF "status" \notin Keys(res) \/ res.status \notin BOOLEAN THEN "raises"
    ELSE IF "type" \notin Keys(res) \/ res.type \notin {"normal", "scanned"}
    THEN "raises"
    ELSE IF "fileName" \notin Keys(res) \/ Strip(res.fileName) = <<>> THEN "raises"
    ELSE IF "documentName" \notin Keys(res) THEN "documentName field not present"
    ELSE IF "extractedTextJsonPath" \notin Keys(res) THEN "jsonFilePath field not present"
    ELSE ""

\* discoverFiles.checkVerificationFields on the list read from the file: the
\* first result that takes a failing branch decides.
RECURSIVE checkVerificationFields(_)
checkVerificationFields(verificationResultList) ==
    IF verificationResultList = <<>>
    THEN getReturnArray(TRUE, "Verification output file is valid", None)
    ELSE LET verdict == FieldsVerdict(Head(verificationResultList))
         IN IF verdict = "raises"
            THEN getReturnArray(FALSE, "Failed to check verification fields", None)
            ELSE IF verdict # "" THEN getReturnArray(FALSE, verdict, None)
            ELSE checkVerificationFields(Tail(verificationResultList))

\* ------------------------------------------------------- the chatbot routes
\* str(n) of a count.
RECURSIVE DecimalOf(_)
DecimalOf(n) ==
    IF n < 10 THEN <<CHOOSE d \in {"0", "1", "2", "3", "4", "5", "6", "7", "8", "9"} :
                        d = ToString(n)>>
    ELSE DecimalOf(n \div 10) \o DecimalOf(n % 10)

\* chat.py l.25: f"conv_{len(conversation_history)}"
GeneratedId(history) ==
    <<"c", "o", "n", "v", "_">> \o DecimalOf(Cardinality(DOMAIN history))

\* chat.py l.25: message.conversation_id or the generated id. The id is None
\* or a string; the empty string is falsy as None is.
ConvIdOf(message, history) ==
    IF message.conversation_id # None /\ message.conversation_id.chars # <<>>
    THEN message.conversation_id.chars
    ELSE GeneratedId(history)

\* One message of a conversation.
Message(role, message) == [role |-> role, message |-> message]

\* conversation_history[conv_id].append(entry), after the setdefault of
\* chat.py l.28-29.
AppendTo(history, conv_id, entry) ==
    [id \in DOMAIN history \cup {conv_id} |->
        IF id = conv_id
        THEN Append(IF conv_id \in DOMAIN history THEN history[conv_id] ELSE <<>>, entry)
        ELSE history[id]]

\* del conversation_history[conversation_id]
Without(history, conversation_id) ==
    [id \in DOMAIN history \ {conversation_id} |-> history[id]]

\* chat.py l.20 without its check: every processor passes.
DocumentsUnchecked(processor) == FALSE
\* chat.py l.20: not document_processor.documents
NoDocuments(processor) == processor.documents = <<>>

\* DocumentProcessor.query_documents: raises when no document is loaded;
\* otherwise a string in every case, the answer of the model or one of the
\* two fallback texts. service is what generate_content does.
query_documents(processor, question, history, service) ==
    IF processor.documents = <<>> THEN [raised |-> TRUE, text |-> <<>>]
    ELSE IF processor.api_key = "dummy"
    THEN [raised |-> FALSE, text |-> <<"I need a valid Google API key">>]
    ELSE IF service = "raises"
    THEN [raised |-> FALSE, text |-> <<"I encountered an error with the AI service">>]
    ELSE [raised |-> FALSE, text |-> <<"answer">>]

\* An HTTP error response.
HTTPException(status_code, detail) ==
    [status_code |-> status_code, detail |-> detail, conversation_id |-> None]
\* A 200 response.
Ok(detail, conversation_id) ==
    [status_code |-> 200, detail |-> detail, conversation_id |-> conversation_id]

\* dependencies.get_document_processor
ProcessorMissing == document_processor = None

\* The requests drawn: messages (empty, blank, a question), conversation ids
\* (absent, empty, of the generated form, another one).
ChatTexts == {<<>>, <<" ">>, <<"q">>}
ConversationIds ==
    {<<>>, <<"x">>} \cup
    { <<"c", "o", "n", "v", "_">> \o DecimalOf(n) : n \in 0..(MaxConversations - 1) }
ChatMessages ==
    [kind : {"chat"}, message : ChatTexts,
     conversation_id : {None} \cup { Str(id) : id \in ConversationIds }]
Services == {"answers", "raises"}

\* The service after startup (dependencies.initialize_document_processor):
\* no processor without an API key, else a processor with the documents
\* build_index loaded, none when the data directory is absent or empty.
Processors ==
    {None} \cup
    [tag : {"processor"}, api_key : {"valid", "dummy"},
     documents : {<<>>, <<"a.json">>}]

ChatInit ==
    /\ conversation_history = <<>>
    /\ document_processor \in Processors
    /\ request = None
    /\ response = None

\* POST /chat/
Chat ==
    \E message \in ChatMessages, service \in Services :
        LET conv_id == ConvIdOf(message, conversation_history)
            asked == AppendTo(conversation_history, conv_id,
                              Message("user", message.message))
            reply == query_documents(document_processor, message.message,
                                     asked[conv_id], service)
            answered == AppendTo(asked, conv_id, Message("assistant", reply.text))
        IN /\ request' = message
           /\ IF ProcessorMissing
              THEN /\ response' = HTTPException(503, "Document processor not initialized")
                   /\ UNCHANGED conversation_history
              ELSE IF Strip(message.message) = <<>>
              THEN /\ response' = HTTPException(400, "Message cannot be empty")
                   /\ UNCHANGED conversation_history
              ELSE IF NoDocuments(document_processor)
              THEN /\ response' = HTTPException(503, "No documents loaded")
                   /\ UNCHANGED conversation_history
              ELSE /\ Cardinality(DOMAIN asked) <= MaxConversations
                   /\ Len(asked[conv_id]) < MaxMessages
                   /\ IF reply.raised
                      THEN /\ conversation_history' = asked
                           /\ response' = HTTPException(500, "Error processing chat")
                      ELSE /\ conversation_history' = answered
                           /\ response' = Ok(reply.text, Str(conv_id))
           /\ UNCHANGED <<document_processor, batchVars, searchVars, writeVars,
                          artifactVars, callVars>>

\* DELETE /conversations/{conversation_id}
DeleteConversation ==
    \E conversation_id \in ConversationIds :
        /\ request' = [kind |-> "delete", conversation_id |-> Str(conversation_id)]
        /\ IF Strip(conversation_id) = <<>>
           THEN /\ response' = HTTPException(400, "Conversation ID cannot be empty")
                /\ UNCHANGED conversation_history
           ELSE IF conversation_id \notin DOMAIN conversation_history
           THEN /\ response' = HTTPException(404, "Conversation not found")
                /\ UNCHANGED conversation_history
           ELSE /\ conversation_history' = Without(conversation_history, conversation_id)
                /\ response' = Ok("deleted successfully", Str(conversation_id))
        /\ UNCHANGED <<document_processor, batchVars, searchVars, writeVars,
                       artifactVars, callVars>>

\* DELETE /cleanup/conversations
ClearAllConversations ==
    /\ request' = [kind |-> "clear_conversations"]
    /\ conversation_history' = <<>>
    /\ response' = Ok("Cleared conversations successfully", None)
    /\ UNCHANGED <<document_processor, batchVars, searchVars, writeVars,
                   artifactVars, callVars>>

\* DELETE /cleanup/documents
ClearDocuments ==
    /\ request' = [kind |-> "clear_documents"]
    /\ IF ProcessorMissing
       THEN /\ response' = HTTPException(503, "Document processor not initialized")
            /\ UNCHANGED document_processor
       ELSE /\ document_processor' = [document_processor EXCEPT !.documents = <<>>]
            /\ response' = Ok("Cleared documents from memory successfully", None)
    /\ UNCHANGED <<conversation_history, batchVars, searchVars, writeVars,
                   artifactVars, callVars>>

ChatNext ==
    \/ Chat
    \/ DeleteConversation
    \/ ClearAllConversations
    \/ ClearDocuments

\* ---------------------------------------------------------------- specifications
\* The run of main on one batch.
Init == BatchInit /\ SearchIdle /\ WriteIdle /\ ArtifactIdle /\ CallIdle /\ ChatIdle
Spec == Init /\ [][BatchNext]_vars
\* Calls of searchTerms on drawn inputs.
SearchNext == SearchTermsCall
InitSearch == BatchIdle /\ SearchInit /\ WriteIdle /\ ArtifactIdle /\ CallIdle /\ ChatIdle
SpecSearch == InitSearch /\ [][SearchNext]_vars

\* Calls of writeJSON, with exceptions and crashes at every step.
InitWrite == BatchIdle /\ SearchIdle /\ WriteInit /\ ArtifactIdle /\ CallIdle /\ ChatIdle
SpecWrite == InitWrite /\ [][WriteNext]_vars

\* Artifacts written by processPdfToJson and read back by the chatbot.
InitArtifact == BatchIdle /\ SearchIdle /\ WriteIdle /\ ArtifactInit /\ CallIdle /\ ChatIdle
SpecArtifact == InitArtifact /\ [][ArtifactNext]_vars

\* The bucketing of classifyFiles on one file with drawn page texts.
InitClassify == OthersIdle /\ ClassifyInit
SpecClassify == InitClassify /\ [][ClassifyCall]_vars

\* Calls of cleanTable on drawn grids.
InitCleanTable == OthersIdle /\ CleanTableInit
SpecCleanTable == InitCleanTable /\ [][CleanTableCall]_vars

\* Calls of scanDocument on one file with drawn extraction inputs.
InitScanDocument == OthersIdle /\ ScanDocumentInit
SpecScanDocument == InitScanDocument /\ [][ScanDocumentCall]_vars

\* Calls of formatPageContent on drawn page results.
InitFormat == OthersIdle /\ FormatInit
SpecFormat == InitFormat /\ [][FormatCall]_vars

\* Calls of buildTable on drawn TABLE blocks and pages.
InitBuildTable == OthersIdle /\ BuildTableInit
SpecBuildTable == InitBuildTable /\ [][BuildTableCall]_vars

\* Calls of processBlocks on drawn pages.
InitProcessBlocks == OthersIdle /\ ProcessBlocksInit
SpecProcessBlocks == InitProcessBlocks /\ [][ProcessBlocksCall]_vars

\* The combined string of drawn pages of a digital PDF.
InitFullText == OthersIdle /\ FullTextInit
SpecFullText == InitFullText /\ [][FullTextCall]_vars

\* Calls of parse_python_style_json on drawn malformed artifacts.
InitParse == OthersIdle /\ ParseInit
SpecParse == InitParse /\ [][ParseCall]_vars

\* Calls of getChunksInfo on drawn chunk configurations.
InitChunks == OthersIdle /\ ChunksInit
SpecChunks == InitChunks /\ [][ChunksCall]_vars

\* The chatbot service handling requests one after the other.
InitChat == BatchIdle /\ SearchIdle /\ WriteIdle /\ ArtifactIdle /\ CallIdle /\ ChatInit
SpecChat == InitChat /\ [][ChatNext]_vars

\* ================================================================ properties
Range(seq) == {seq[i] : i \in 1..Len(seq)}
Abs(x) == IF x < 0 THEN -x ELSE x

\* The number of terms of `terms` whose lower-cased form occurs in text,
\* counted position by position.
CountMatched(terms, text) ==
    Cardinality({j \in 1..Len(terms) : IsSubstring(Lower(terms[j]), text)})

\* s hundredths is a nearest hundredth of m / n.
IsRounded(s, m, n) == 2 * Abs(100 * m - s * n) <= n

\* The rounded ratio of class i of the catalogue of the call.
RatioOf(i) ==
    LET terms == stArgs.termsJson[i].terms
    IN IF terms = <<>> THEN 0
       ELSE Round2(CountMatched(terms, stArgs.extractedText), Len(terms))

\* The index of the class named docName in the catalogue of the call.
IndexOf(docName) ==
    CHOOSE i \in 1..Len(stArgs.termsJson) : stArgs.termsJson[i].name = docName

\* C1: for every record that searchTerms returns with a non-empty
\* documentClass c, matchedConfidenceScore is |matchedTerms| / |terms of c|
\* rounded to 2 decimals, no class of the catalogue has a larger rounded
\* ratio, and every class before c in iteration order has a strictly smaller
\* one.
C1_ScoreIsFirstBestRatio ==
    (stRes # None /\ stRes.status /\ stRes.data[1].documentClass # <<>>) =>
        LET r == stRes.data[1]
            cat == stArgs.termsJson
            c == IndexOf(r.documentClass)
        IN /\ \E i \in 1..Len(cat) : cat[i].name = r.documentClass
           /\ cat[c].terms # <<>>
           /\ Len(r.matchedTerms) = CountMatched(cat[c].terms, stArgs.extractedText)
           /\ IsRounded(r.matchedConfidenceScore, Len(r.matchedTerms), Len(cat[c].terms))
           /\ \A i \in 1..Len(cat) : RatioOf(i) <= r.matchedConfidenceScore
           /\ \A i \in 1..(c - 1) : RatioOf(i) < r.matchedConfidenceScore

\* C1 witness: a record for a class that a later class ties with, at a score
\* that is neither 0 nor 1 (50 hundredths).
C1_Witness ==
    /\ stRes # None /\ stRes.status /\ stRes.data[1].documentClass # <<>>
    /\ stRes.data[1].matchedConfidenceScore = 50
    /\ \E i \in 1..Len(stArgs.termsJson) :
          /\ i > IndexOf(stRes.data[1].documentClass)
          /\ RatioOf(i) = 50

\* C2 (as claimed): a scanned file with a page whose OCR call raised has a
\* scanDocument status of False and no record in the list.
C2_OcrFailureFailsTheFile ==
    \A i \in 1..Len(hist) :
        hist[i].ocrRaised =>
            /\ ~hist[i].status
            /\ \A j \in 1..Len(finalSearchedFiles) :
                  finalSearchedFiles[j].fileLocation # hist[i].file

\* C3 (as claimed): a file whose page-1 text has length zero is in the
\* scanned bucket once classifyFiles has looked at it.
C3_EmptyPageOneIsScanned ==
    \A i \in 1..Len(classified) :
        classified[i].pageOne = "empty" => classified[i].file \in Range(scannedFiles)

\* C4 (as claimed): when main returns success, the record list holds one
\* record for every PDF file of the batch folder.
C4_SuccessCoversEveryPdf ==
    (pc = "done" /\ ret.status) =>
        LET docs == ret.data[1].batchDocs
        IN /\ Len(docs) = Len(PdfBatch(folder))
           /\ {docs[i].fileLocation : i \in 1..Len(docs)} = Range(PdfBatch(folder))

\* C5 (as claimed): a PDF that cannot be opened or parsed during
\* classification does not make classifyFiles fail.
C5_UnreadableFileIsSkipped ==
    (\E i \in 1..Len(classified) : classified[i].pageOne = "unreadable") =>
        result # ClassificationFailed

\* The files of both buckets in processing order.
BucketFiles == scannedFiles \o normalFiles

\* C6: a file whose scanDocument fails affects only that file: the loops
\* visit every file of both buckets in order, the list holds the records of
\* the calls that succeeded, in order, and generateVerification returns
\* status True with that list.
C6_FailureAffectsOnlyThatFile ==
    LET ok == SelectSeq(hist, LAMBDA e : e.status)
    IN /\ pc \in {"scanned", "normal"} =>
             /\ Len(hist) = (IF pc = "scanned" THEN 0 ELSE Len(scannedFiles)) + idx - 1
             /\ \A i \in 1..Len(hist) : hist[i].file = BucketFiles[i]
       /\ (pc \in {"return", "write", "cleanup", "done"} /\ hist # <<>>) =>
             /\ [i \in 1..Len(hist) |-> hist[i].file] = BucketFiles
             /\ [i \in 1..Len(finalSearchedFiles) |-> finalSearchedFiles[i].fileLocation]
                  = [i \in 1..Len(ok) |-> ok[i].file]
       /\ (pc \in {"write", "cleanup", "done"} /\ hist # <<>>) =>
             /\ result.status
             /\ result.data[1].batchDocs = finalSearchedFiles

\* C6 witness: main has returned, the first file failed in scanDocument, and
\* the second one was still processed and has its record.
C6_Witness ==
    /\ pc = "done" /\ ret.status
    /\ Len(hist) = 2 /\ ~hist[1].status /\ hist[2].status
    /\ Len(ret.data[1].batchDocs) = 1
    /\ ret.data[1].batchDocs[1].fileLocation = hist[2].file

\* C7 (as claimed): at every point of writeJSON, a crash between two of its
\* steps included, the file at outPath is as it was before the call or holds
\* the complete new JSON; a part of it is only ever at the temporary path.
C7_OutputWrittenAtomically ==
    wjPc # "idle" => wjFiles["out"] \in {wjOld, FileOf(Serialize(wjData))}

\* C8 (as claimed): what main writes to the verification output is the array
\* of the records themselves, one element per recorded file.
C8_OutputIsArrayOfRecords ==
    (fs.ver.tag = "json" /\ finalSearchedFiles # <<>>) =>
        fs.ver.value = finalSearchedFiles

\* A page text that holds three double quotes in a row.
HasTripleQuote(text) == FindTriple(text, 1) # 0

\* C9: when no page text holds three double quotes in a row, the dictionary
\* read back from the artifact has the pages that were written, and the
\* cleaned content of every page, without the line breaks the format puts
\* around it, is the text that was written.
C9_RoundTripReproducesPages ==
    (arPc = "done" /\ \A i \in 1..Len(arPages) : ~HasTripleQuote(arPages[i])) =>
        /\ Len(arData) = Len(arPages)
        /\ \A i \in 1..Len(arPages) :
              /\ arData[i].key = <<PageKey(i)>>
              /\ Strip(CleanContent(arData[i].value)) = arPages[i]

\* C10 (as claimed): after main has returned, the side-file that
\* extractIdentificationList wrote does not exist.
C10_SideFileRemoved ==
    pc = "done" => fs.side # "written"

\* The number of words of a text: the positions where a run of non-space
\* characters starts.
Words(text) ==
    Cardinality({i \in 1..Len(text) :
                    text[i] # " " /\ (i = 1 \/ text[i - 1] = " ")})

\* C11: for a file with non-empty page-1 text, the bucket is "normal" exactly
\* when the number of words of page 1 is at least COUNT_THRESHOLD and
\* "scanned" otherwise, whatever the other pages hold.
C11_ThresholdRule ==
    (callRes # None /\ callArgs.tag = "classify" /\ callArgs.doc # <<>>
        /\ callArgs.doc[1] # <<>>) =>
        /\ callRes.value \in {"normal", "scanned"}
        /\ callRes.value = "normal" <=> Words(callArgs.doc[1]) >= callArgs.threshold

\* C11 witness: three words on page 1 with threshold 5 give "scanned",
\* although page 2 has ten words.
C11_Witness ==
    /\ callRes = Returned("scanned") /\ callArgs.tag = "classify"
    /\ callArgs.threshold = ScenarioThreshold
    /\ Len(callArgs.doc) = 2
    /\ Words(callArgs.doc[1]) = 3 /\ Words(callArgs.doc[2]) = 10

\* No term of any class of the catalogue of the call is a substring of the
\* document text; every term is a string.
NoTermMatches ==
    \A i \in 1..Len(stArgs.termsJson) :
        \A j \in 1..Len(stArgs.termsJson[i].terms) :
            /\ stArgs.termsJson[i].terms[j] # NotAString
            /\ ~IsSubstring(Lower(stArgs.termsJson[i].terms[j]), stArgs.extractedText)

C13_ZeroTermClassNeverSelected ==
    (stRes # None /\ \E i \in 1..Len(stArgs.termsJson) : stArgs.termsJson[i].terms = <<>>) =>
        /\ \A i \in 1..Len(stArgs.termsJson) :
              stArgs.termsJson[i].terms = <<>> =>
                  Probability(stArgs.termsJson[i].terms, stArgs.extractedText) = 0
        /\ ~RaisesOnTerms(stArgs.termsJson) => stRes.status
        /\ (stRes.status /\ stRes.data[1].documentClass # <<>>) =>
              stArgs.termsJson[IndexOf(stRes.data[1].documentClass)].terms # <<>>

\* C13 witness: the first class of the catalogue has zero terms and a later
\* class is returned.
C13_Witness ==
    /\ stRes # None /\ stRes.status
    /\ Len(stArgs.termsJson) >= 2
    /\ stArgs.termsJson[1].terms = <<>> /\ stArgs.termsJson[1].name # <<>>
    /\ stRes.data[1].documentClass # <<>>
    /\ stRes.data[1].matchedConfidenceScore > 0

\* The position of a file in the order of classification.
ClassifiedIndex(file) ==
    CHOOSE i \in 1..Len(classified) : classified[i].file = file

\* Records of scanned files come before records of normal files, and the
\* records of one bucket are in the order of classification.
InBucketOrder(docs) ==
    \A i, j \in 1..Len(docs) :
        i < j =>
            /\ ~(docs[i].documentType = "normal" /\ docs[j].documentType = "scanned")
            /\ docs[i].documentType = docs[j].documentType =>
                  ClassifiedIndex(docs[i].fileLocation)
                      < ClassifiedIndex(docs[j].fileLocation)

\* C14: in the list that generateVerification builds and returns, every
\* record of a scanned file precedes every record of a normal file, and
\* within a bucket the records are in the order the files were classified.
C14_BucketOrderIsFixed ==
    /\ pc # "idle" => InBucketOrder(finalSearchedFiles)
    /\ (pc \in {"write", "cleanup", "done"} /\ result # None /\ result.status) =>
          /\ result.data[1].batchDocs = finalSearchedFiles
          /\ \A i \in 1..Len(finalSearchedFiles) :
                finalSearchedFiles[i].fileLocation \in
                    Range(IF finalSearchedFiles[i].documentType = "scanned"
                          THEN scannedFiles ELSE normalFiles)

\* C14 witness: two records are returned, a scanned file's before a normal
\* file's, although the normal file was classified first.
C14_Witness ==
    /\ pc = "done" /\ ret.status
    /\ Len(ret.data[1].batchDocs) = 2
    /\ ret.data[1].batchDocs[1].documentType = "scanned"
    /\ ret.data[1].batchDocs[2].documentType = "normal"
    /\ ClassifiedIndex(ret.data[1].batchDocs[2].fileLocation)
          < ClassifiedIndex(ret.data[1].batchDocs[1].fileLocation)

\* The bucket classifyFiles put a file in, "none" for a file in no bucket.
BucketOf(file) ==
    IF file \in Range(scannedFiles) THEN "scanned"
    ELSE IF file \in Range(normalFiles) THEN "normal"
    ELSE "none"

C16_ConfigurationFailsFast ==
    (pc \notin {"idle", "initialize"} /\ (~fs.terms \/ ~fs.batch)) =>
        /\ pc = "done"
        /\ ~ret.status
        /\ result = None
        /\ classified = <<>> /\ hist = <<>> /\ finalSearchedFiles = <<>>
        /\ scannedFiles = <<>> /\ normalFiles = <<>>
        /\ fs.ver.tag # "json"

\* C16 witness: main has returned a failure for a batch folder that holds a
\* PDF while the term catalogue file is absent.
C16_Witness ==
    /\ pc = "done" /\ ~ret.status
    /\ ~fs.terms /\ fs.batch
    /\ PdfBatch(folder) # <<>>

\* The n-th smallest element of a set of numbers.
NthOf(S, n) == CHOOSE x \in S : Cardinality({y \in S : y < x}) = n - 1

\* The rows of the grid of the call with a cell that is not blank, and the
\* columns with such a cell in one of these rows.
KeptRows ==
    {i \in 1..Len(callArgs.table) :
        \E j \in 1..Len(callArgs.table[i]) : callArgs.table[i][j] \notin {"", " "}}
KeptCols ==
    {j \in 1..MaxCells :
        \E i \in KeptRows :
            j <= Len(callArgs.table[i]) /\ callArgs.table[i][j] \notin {"", " "}}

\* C17: cleanTable returns the grid restricted, in order, to the rows with a
\* non-blank cell and to the columns with a non-blank cell in these rows; a
\* grid of blank cells cleans to the empty grid.
C17_CleanTableKeepsNonBlank ==
    (callRes # None /\ callArgs.tag = "cleanTable") =>
        LET out == callRes.value
        IN /\ Len(out) = (IF KeptCols = {} THEN 0 ELSE Cardinality(KeptRows))
           /\ \A a \in 1..Len(out) :
                 /\ Len(out[a]) = Cardinality(KeptCols)
                 /\ \A b \in 1..Len(out[a]) :
                       out[a][b] = callArgs.table[NthOf(KeptRows, a)][NthOf(KeptCols, b)]

\* C17 witness: the grid [["A", ""], ["", ""]] cleans to [["A"]].
C17_Witness ==
    /\ callArgs # None /\ callArgs.tag = "cleanTable"
    /\ callArgs.table = <<<<"A", "">>, <<"", "">>>>
    /\ callRes = Returned(<<<<"A">>>>)

\* C18: for a file of the normal bucket that does not exist, processPdfToJson
\* returns an empty page map and writes no artifact, processNonScannedFile
\* returns status False and scanDocument returns status False.
C18_MissingSourceFileFails ==
    (callRes # None /\ callArgs.tag = "scanDocument"
        /\ callArgs.fileType = "normal" /\ callArgs.ext.fault = "missing") =>
        /\ callRes.value.pdfToJson.result = <<>>
        /\ callRes.value.pdfToJson.outputFileName = NoPath
        /\ callRes.value.artifact = "nothing"
        /\ ~callRes.value.details.status
        /\ ~callRes.value.scan.status

\* C18 witness: scanDocument has returned for a missing file of the normal
\* bucket, with a catalogue that has classes.
C18_Witness ==
    /\ callRes # None /\ callArgs.tag = "scanDocument"
    /\ callArgs.fileType = "normal" /\ callArgs.ext.fault = "missing"
    /\ callArgs.termsMap # <<>>
    /\ ~callRes.value.scan.status

\* The lines that are not empty.
NonEmptyLines(lines) == SelectSeq(lines, LAMBDA l : l # "")

\* The lines of the call's headers i.., each followed by the raw-text item
\* and the table of the same rank, when there is one.
RECURSIVE ExpectedUnderHeaders(_)
ExpectedUnderHeaders(i) ==
    LET a == callArgs.result
    IN IF i > Len(a.sectionHeaders) THEN <<>>
       ELSE <<"## " \o a.sectionHeaders[i]>>
            \o (IF i <= Len(a.rawText) THEN <<a.rawText[i]>> ELSE <<>>)
            \o (IF i <= Len(a.tables) THEN tableToMarkdown(a.tables[i]) ELSE <<>>)
            \o ExpectedUnderHeaders(i + 1)

\* The lines of the call's tables i.. in order.
RECURSIVE ExpectedTables(_)
ExpectedTables(i) ==
    IF i > Len(callArgs.result.tables) THEN <<>>
    ELSE tableToMarkdown(callArgs.result.tables[i]) \o ExpectedTables(i + 1)

\* The key and the value of the call's pairs i.. in order.
RECURSIVE ExpectedPairs(_)
ExpectedPairs(i) ==
    IF i > Len(callArgs.result.keyValuePairs) THEN <<>>
    ELSE <<callArgs.result.keyValuePairs[i][1], callArgs.result.keyValuePairs[i][2]>>
         \o ExpectedPairs(i + 1)

\* C19: the lines of the page content that are not empty are, in order:
\* under every header Hi the raw-text item Ri and the table Ti when they
\* exist; then the raw-text items after the last header's rank; then the
\* tables after it; then key and value of every pair.
C19_PageContentOrder ==
    (callRes # None /\ callArgs.tag = "formatPageContent") =>
        LET a == callArgs.result
            h == Len(a.sectionHeaders)
        IN NonEmptyLines(callRes.value) =
              NonEmptyLines(ExpectedUnderHeaders(1)
                            \o SubSeq(a.rawText, h + 1, Len(a.rawText))
                            \o ExpectedTables(h + 1)
                            \o ExpectedPairs(1))

\* C19 witness: a page with two headers, three raw-text items, three tables
\* of which the first renders empty, and two pairs.
C19_Witness ==
    /\ callRes # None /\ callArgs.tag = "formatPageContent"
    /\ Len(callArgs.result.sectionHeaders) = 2
    /\ Len(callArgs.result.rawText) = 3
    /\ Len(callArgs.result.tables) = 3
    /\ tableToMarkdown(callArgs.result.tables[1]) = <<>>
    /\ tableToMarkdown(callArgs.result.tables[2]) # <<>>
    /\ tableToMarkdown(callArgs.result.tables[3]) # <<>>
    /\ Len(callArgs.result.keyValuePairs) = 2
    /\ NonEmptyLines(callRes.value)[1] = "## Summary 1"
    /\ NonEmptyLines(callRes.value)[2] = "R1"
    /\ NonEmptyLines(callRes.value)[3] = "## Summary 2"

\* The ids of the CELL children of the TABLE block of the call that are on
\* the page.
ResolvableCells ==
    {id \in Range(callArgs.tableBlock.Ids) :
        id \in DOMAIN callArgs.blockMap /\ callArgs.blockMap[id].BlockType = "CELL"}

\* The texts of the words of a cell that are on the page, joined by spaces.
SpaceJoined(cellId) ==
    LET ids == callArgs.blockMap[cellId].Ids
        words == SelectSeq(ids, LAMBDA w : w \in DOMAIN callArgs.blockMap)
    IN Join([i \in 1..Len(words) |-> callArgs.blockMap[words[i]].Text], <<" ">>)

\* C20: with a resolvable CELL child, buildTable returns a grid of
\* max(RowIndex) rows and max(ColumnIndex) columns that holds at (r, c) the
\* space-joined text of the CELL child with these indices and the empty
\* string where there is none, and the grid is added to the page's tables;
\* without one it returns None and nothing is added.
C20_GridOfCells ==
    (callRes # None /\ callArgs.tag = "buildTable") =>
        IF ResolvableCells = {}
        THEN callRes.value.table_result = None /\ callRes.value.tables = <<>>
        ELSE LET bm == callArgs.blockMap
                 grid == callRes.value.table_result.items
                 rows == CHOOSE n \in {bm[id].RowIndex : id \in ResolvableCells} :
                            \A id \in ResolvableCells : bm[id].RowIndex <= n
                 cols == CHOOSE n \in {bm[id].ColumnIndex : id \in ResolvableCells} :
                            \A id \in ResolvableCells : bm[id].ColumnIndex <= n
             IN /\ callRes.value.table_result # None
                /\ callRes.value.tables = <<grid>>
                /\ Len(grid) = rows
                /\ \A r \in 1..rows :
                      /\ Len(grid[r]) = cols
                      /\ \A c \in 1..cols :
                            /\ \A id \in ResolvableCells :
                                  (bm[id].RowIndex = r /\ bm[id].ColumnIndex = c)
                                      => grid[r][c] = SpaceJoined(id)
                            /\ (\A id \in ResolvableCells :
                                   bm[id].RowIndex # r \/ bm[id].ColumnIndex # c)
                                      => grid[r][c] = <<>>

\* C20 witness: a two by two grid built from the cells at (2, 2) and (1, 2),
\* listed after a word and in this order; the other two places are empty.
C20_Witness ==
    /\ callRes # None /\ callArgs.tag = "buildTable"
    /\ callArgs.tableBlock.Ids = <<"w1", "c1", "c2">>
    /\ callRes.value.tables =
          <<<< <<<<>>, <<"b", "c">>>>, <<<<>>, <<"a", " ", "b", "c">>>> >>>>

\* The lower-cased trimmed texts of the non-empty cells of the tables that
\* the call returned.
CellTextsOfPage ==
    {Lower(Strip(cell)) :
        cell \in UNION {Range(row) : row \in UNION {Range(t) : t \in Range(callRes.value.tables)}}}
    \ {<<>>}

\* The LINE blocks of the call with non-empty trimmed text that no cell text
\* holds or is held by, in block order.
KeptLines ==
    SelectSeq(callArgs.blocks,
              LAMBDA b : /\ b.BlockType = "LINE"
                         /\ Strip(b.Text) # <<>>
                         /\ \A ct \in CellTextsOfPage :
                               /\ ~IsSubstring(Lower(Strip(b.Text)), ct)
                               /\ ~IsSubstring(ct, Lower(Strip(b.Text))))

C22_TablesAfterBlankLine ==
    (callRes # None /\ callArgs.tag = "fullText"
        /\ callArgs.page_text # <<>> /\ callArgs.tables # <<>>) =>
        callRes.value = callArgs.page_text \o <<NL, NL>>
                            \o Strip(TablesMarkdown(callArgs.tables))

\* The mapping of page_1, page_2, ... to the values of the kinds of the call:
\* the text between the quotes, or true.
ValuesOfCall ==
    [i \in 1..Len(callArgs.kinds) |->
        [key |-> <<PageKey(i)>>,
         value |-> CASE callArgs.kinds[i] = "triple" -> <<NL, "x", NL>>
                     [] callArgs.kinds[i] = "plain" -> <<"x">>
                     [] OTHER -> JsonTrue]]

\* C23: parse_python_style_json gives a mapping for every content: the
\* literal when the content is a Python literal (closed, every value a
\* string), otherwise the JSON value of the repaired content when that is
\* JSON (closed, no comma before the brace, every value a string or true),
\* and otherwise the empty mapping.
C23_MalformedArtifactGivesMapping ==
    (callRes # None /\ callArgs.tag = "parse") =>
        LET content == ContentOf(callArgs.kinds, callArgs.comma, callArgs.closed)
            isLiteral == /\ callArgs.closed
                         /\ \A i \in 1..Len(callArgs.kinds) :
                               callArgs.kinds[i] \in {"triple", "plain"}
            isJson == /\ callArgs.closed /\ ~callArgs.comma
                      /\ \A i \in 1..Len(callArgs.kinds) :
                            callArgs.kinds[i] \in {"triple", "plain", "true"}
        IN /\ literal_eval(content).ok <=> isLiteral
           /\ ~isLiteral => (json_loads(SubTripleQuotes(content, 1)).ok <=> isJson)
           /\ callRes.value = IF isLiteral \/ isJson THEN ValuesOfCall ELSE <<>>

\* C23 witness: a content with a triple-quoted block and the value true is
\* no Python literal and is read after the repair.
C23_Witness ==
    /\ callRes # None /\ callArgs.tag = "parse"
    /\ callArgs.kinds = <<"triple", "true">>
    /\ ~literal_eval(ContentOf(callArgs.kinds, callArgs.comma, callArgs.closed)).ok
    /\ Len(callRes.value) = 2
    /\ callRes.value[1].value = <<NL, "x", NL>>
    /\ callRes.value[2].value = JsonTrue

\* C24 (as claimed): after the removal pass docSections holds no chunk with
\* isFound False, its first row is a found chunk, and every missing chunk is
\* reported exactly once, with isFound False and start and end index -1.
C24_NoFalseChunkLeft ==
    (callRes # None /\ callArgs.tag = "getChunksInfo") =>
        LET left == callRes.value.docSections
            rows == callRes.value.chunks
        IN /\ \A i \in 1..Len(left) : left[i].isFound
           /\ ~callRes.value.raised =>
                 \A k \in 1..Len(callArgs.pdfChunks) :
                     LET chunk == callArgs.pdfChunks[k]
                     IN (~chunk.isMultiple /\ ~chunk.isOptional /\ chunk.hits = <<>>) =>
                           /\ Cardinality({j \in 1..Len(rows) : rows[j].code = chunk.code}) = 1
                           /\ \A j \in 1..Len(rows) :
                                 rows[j].code = chunk.code =>
                                     /\ ~rows[j].isFound
                                     /\ rows[j].startIndex = -1
                                     /\ rows[j].endIndex = -1

\* C25 (as claimed): when a term of a class occurs in the document text, in
\* a catalogue whose classes have non-empty names and string terms,
\* searchTerms reports classficationStatus true with a non-empty
\* documentClass and a score above 0.
C25_MatchedTermClassifies ==
    (/\ stRes # None
     /\ ~RaisesOnTerms(stArgs.termsJson)
     /\ \A i \in 1..Len(stArgs.termsJson) : stArgs.termsJson[i].name # <<>>
     /\ \E i \in 1..Len(stArgs.termsJson) :
           CountMatched(stArgs.termsJson[i].terms, stArgs.extractedText) > 0) =>
        /\ stRes.status
        /\ stRes.data[1].classficationStatus
        /\ stRes.data[1].documentClass # <<>>
        /\ stRes.data[1].matchedConfidenceScore > 0

\* C26 (as claimed): the records of two different files of a batch never
\* name the same extraction artifact.
C26_ArtifactPathsAreDistinct ==
    \A i, j \in 1..Len(finalSearchedFiles) :
        finalSearchedFiles[i].fileLocation # finalSearchedFiles[j].fileLocation =>
            finalSearchedFiles[i].extractedTextJsonPath
                # finalSearchedFiles[j].extractedTextJsonPath

\* C27 (as claimed): a step of initialize that fails while the term
\* catalogue file or the batch folder is absent leaves the output folder,
\* the extracted-text folder in it, and their contents as they were.
C27_FailedInitializeLeavesFolders ==
    [][(pc = "initialize" /\ pc' = "done" /\ ~ret'.status
            /\ (~fs.terms \/ ~fs.batch)) =>
          (fs'.out = fs.out /\ fs'.ver = fs.ver)]_vars

\* C28 (as claimed): the verification output that main writes for a batch
\* with a recorded file is accepted by checkVerificationFields, and so are
\* the records of searchTerms in it.
C28_OutputPassesFieldCheck ==
    (fs # None /\ fs.ver.tag = "json" /\ finalSearchedFiles # <<>>) =>
        /\ checkVerificationFields(fs.ver.value).status
        /\ checkVerificationFields(finalSearchedFiles).status

\* C29 (as claimed): a chat request sent without a conversation_id and
\* answered starts a fresh conversation: the id in the response is not the id
\* of a conversation stored before the request, and the history under it is
\* the user message of the request followed by the reply.
C29_ChatWithoutIdStartsFresh ==
    [][(/\ request' # None
        /\ request'.kind = "chat"
        /\ request'.conversation_id = None
        /\ response'.status_code = 200) =>
            /\ response'.conversation_id.chars \notin DOMAIN conversation_history
            /\ conversation_history'[response'.conversation_id.chars] =
                   <<Message("user", request'.message),
                     Message("assistant", response'.detail)>>]_vars

\* A conversation of the store is a non-empty run of exchanges: user,
\* assistant, user, assistant, ...
Alternates(messages) ==
    /\ messages # <<>>
    /\ Len(messages) % 2 = 0
    /\ \A i \in 1..Len(messages) :
           messages[i].role = IF i % 2 = 1 THEN "user" ELSE "assistant"

\* C30: after any sequence of chat, delete-conversation, clear-conversations
\* and clear-documents requests every conversation of the history store is
\* non-empty, of even length and alternates user, assistant from user; and a
\* chat request rejected with 400 or 503 leaves the store as it was.
C30_HistoriesAlternate ==
    /\ [](\A id \in DOMAIN conversation_history :
              Alternates(conversation_history[id]))
    /\ [][(/\ request' # None
           /\ request'.kind = "chat"
           /\ response'.status_code \in {400, 503}) =>
               conversation_history' = conversation_history]_vars

\* C30 witness: a chat request is rejected with 503 after the documents were
\* cleared, while the store holds a conversation of two exchanges.
C30_Witness ==
    /\ request # None
    /\ request.kind = "chat"
    /\ response.status_code = 503
    /\ document_processor # None
    /\ \E id \in DOMAIN conversation_history : Len(conversation_history[id]) = 4

====
